---- MODULE Spec2Model ----
(***************************************************************************)
(* A model of the Go agent SDK: the Agent orchestrator (agent/agent.go),   *)
(* the tool Registry (package tools) and the canonical message             *)
(* constructors (package llm).                                             *)
(*                                                                         *)
(* Agent.Run is a blocking, recursive call.  It is cut into steps at the   *)
(* two places where it waits for somebody else: the provider call          *)
(* (CreateChat) and each tool invocation (Registry.Execute).               *)
(***************************************************************************)
EXTENDS Integers, Sequences, FiniteSets, TLC

VARIABLES
    History,       \* Agent.History: the conversation so far
    definitions,   \* Registry.definitions: name -> ToolDefinition
    SystemPrompt,  \* Agent.SystemPrompt
    MaxRetries,    \* Agent.MaxRetries
    pc,            \* where the (single) caller of Run is
    usrMsg,        \* the usrMsg argument of the Run invocation in progress
    req,           \* the llm.ChatRequest CreateChat is working on
    resp,          \* the response CreateChat returned last
    err,           \* the error CreateChat returned last
    idx,           \* position of the tool loop in choice.Message.ToolCalls
    inflight,      \* TRUE while Registry.Execute is running for call idx
    result,        \* what the last caller-issued Run returned
    llmCalls,      \* CreateChat calls so far (all Runs)
    runCalls,      \* CreateChat calls of the caller-issued Run in progress
    rounds,        \* Run invocations (first and re-entries) of that Run
    runStart,      \* Len(History) when the caller-issued Run was entered
    frameStart,    \* Len(History) when the current Run invocation was entered
    asstAt,        \* index in History of the latest round's tool-call message
    execLog,       \* identifiers of the round's calls, as their tools started
    provider,      \* Agent.provider: which llm.ChatProvider the Agent talks to
    callback,      \* whether Agent.callback is set (WithCallback)
    events,        \* what the callback was told during the caller's Run
    op,            \* the operation performed last: what it was given and,
                   \* for a method of the Registry, what it returned
    twin,          \* a second Agent, built alike but for its callback
    other          \* the locals of a second goroutine calling Run

vars == <<History, definitions, SystemPrompt, MaxRetries, pc, usrMsg, req,
          resp, err, idx, inflight, result, llmCalls, runCalls, rounds,
          runStart, frameStart, asstAt, execLog, provider, callback, events,
          op, twin, other>>

\* What no step of Run or of the Registry touches.
aside == <<provider, callback, twin, other>>

-----------------------------------------------------------------------------
(* Bounds of the model.                                                    *)

\* CreateChat calls over the life of the Agent.
MaxLLMCalls == 3

\* Tool calls in one provider response.
MaxCalls == 2

\* Times the scheduler goes from one goroutine calling Run to the other.
MaxSwitches == 2

\* Messages in a request handed to CreateChat directly.
MaxMessages == 3

-----------------------------------------------------------------------------
(* Package llm: the message constructors.                                  *)

NoCalls == <<>>

Message(role, content, name, calls, id) ==
    [Role |-> role, Content |-> content, Name |-> name,
     ToolCalls |-> calls, ToolCallID |-> id]

\* NewSystemMessage building a user message.
NewSystemMessage_AsUser(content) == Message("user", content, "", NoCalls, "")

NewSystemMessage(content) == Message("system", content, "", NoCalls, "")

NewUserMessage(content) == Message("user", content, "", NoCalls, "")

\* NewAssistantMessage losing the text it is given.
NewAssistantMessage_Blank(content) == Message("assistant", "", "", NoCalls, "")

NewAssistantMessage(content) == Message("assistant", content, "", NoCalls, "")

\* NewToolCallMessage with a text of its own next to the calls.
NewToolCallMessage_WithText(calls) ==
    Message("assistant", "Calling tools.", "", calls, "")

NewToolCallMessage(calls) == Message("assistant", "", "", calls, "")

\* NewToolResult without the identifier stamped on the message.
NewToolResult_NoID(toolCallID, name, output) ==
    Message("tool", output, name, NoCalls, "")

NewToolResult(toolCallID, name, output) ==
    Message("tool", output, name, NoCalls, toolCallID)

\* fmt.Sprintf("Error executing tool: %v. Please fix your arguments.", err)
ErrorText(e) == "Error executing tool: " \o e \o ". Please fix your arguments."

NewToolError(toolCallID, name, e) ==
    Message("tool", ErrorText(e), name, NoCalls, toolCallID)

ToolCall(id, name, args) ==
    [ID |-> id, Type |-> "function",
     Function |-> [Name |-> name, Arguments |-> args]]

-----------------------------------------------------------------------------
(* Package tools: the Registry.                                            *)
(*                                                                         *)
(* A value handed to Register is described by what reflection sees of it:  *)
(* whether it is a function, how many inputs it takes, and what a call     *)
(* yields ("string", an interface holding a string, an int, nothing).      *)

Callable(id, kind, numIn, out) ==
    [id |-> id, kind |-> kind, NumIn |-> numIn, out |-> out]

GetWeather == Callable("GetWeather", "func", 1, "string")

\* A one-argument function whose result is no string: Register takes it,
\* Execute cannot use what it returns.
ReturnsInt == Callable("ReturnsInt", "func", 1, "int")

NotAFunction == Callable("a string", "string", 0, "none")

\* More values a caller can hand to Register: a second weather function, a
\* function declared to return `any` that returns a string, functions of
\* no result, of no argument and of two arguments, and nil.
GetForecast == Callable("GetForecast", "func", 1, "string")

ReturnsAny == Callable("ReturnsAny", "func", 1, "any_string")

ReturnsNothing == Callable("ReturnsNothing", "func", 1, "none")

NoArgs == Callable("NoArgs", "func", 0, "string")

TwoArgs == Callable("TwoArgs", "func", 2, "string")

NilValue == Callable("nil", "nil", 0, "none")

\* What encoding/json makes of an arguments text decoded into a struct
\* with one string field `city`: the decoded field, or a failure.
Decoded(city) == [ok |-> TRUE, city |-> city, err |-> ""]

Undecodable(e) == [ok |-> FALSE, city |-> "", err |-> e]

JsonDecode(argsJson) ==
    CASE argsJson = "{\"city\":\"Paris\"}" -> Decoded("Paris")
      [] argsJson = "{}" -> Decoded("")
      [] argsJson = "null" -> Decoded("")
      [] argsJson = "{\"city\":1}" ->
            Undecodable("json: cannot unmarshal number into Go struct field WeatherArgs.city of type string")
      [] argsJson = "[1]" ->
            Undecodable("json: cannot unmarshal array into Go value of type main.WeatherArgs")
      [] argsJson = "\"Paris\"" ->
            Undecodable("json: cannot unmarshal string into Go value of type main.WeatherArgs")
      [] argsJson = "1" ->
            Undecodable("json: cannot unmarshal number into Go value of type main.WeatherArgs")
      [] argsJson \in {"", "{"} -> Undecodable("unexpected end of JSON input")
      [] OTHER -> Undecodable("invalid character looking for beginning of value")

\* reflect.Value.Call on a registered function: the first result's kind
\* and, when it is or holds a string, the string.
CallFunc(fn, args) ==
    [kind |-> fn.out,
     str |-> IF fn.out \in {"string", "any_string"}
             THEN fn.id \o "(" \o args.city \o ")"
             ELSE ""]

Nil == "<nil>"

\* What Execute returns, and the functions it called on the way, each
\* with the argument it was passed.
Returned(text, e, called) == [result |-> text, err |-> e, called |-> called]

\* Execute answering an unknown name with an empty result and no error.
Execute_EmptyOnMissing(defs, name, argsJson) ==
    IF name \notin DOMAIN defs
    THEN Returned("", Nil, <<>>)
    ELSE IF ~JsonDecode(argsJson).ok
    THEN Returned("", "invalid args: " \o JsonDecode(argsJson).err, <<>>)
    ELSE LET r == CallFunc(defs[name].Func, JsonDecode(argsJson))
             called == <<[fn |-> defs[name].Func.id,
                          city |-> JsonDecode(argsJson).city]>>
         IN  CASE r.kind = "none" ->
                    Returned("", "function returned no results", called)
               [] r.kind \in {"string", "any_string"} ->
                    Returned(r.str, Nil, called)
               [] OTHER ->
                    Returned("", "function did not return a string", called)

Execute(defs, name, argsJson) ==
    IF name \notin DOMAIN defs
    THEN Returned("", "tool " \o name \o " not found", <<>>)
    ELSE IF ~JsonDecode(argsJson).ok
    THEN Returned("", "invalid args: " \o JsonDecode(argsJson).err, <<>>)
    ELSE LET r == CallFunc(defs[name].Func, JsonDecode(argsJson))
             called == <<[fn |-> defs[name].Func.id,
                          city |-> JsonDecode(argsJson).city]>>
         IN  CASE r.kind = "none" ->
                    Returned("", "function returned no results", called)
               [] r.kind \in {"string", "any_string"} ->
                    Returned(r.str, Nil, called)
               [] OTHER ->
                    Returned("", "function did not return a string", called)

\* Register on nil: reflect.TypeOf(nil) is the nil Type, and the Kind()
\* called on it panics.
Panics(function) == function.kind = "nil"

\* Register: the new definitions map, or the old one when it fails.
RegisterErr(function) ==
    IF function.kind # "func"
    THEN "this is not a valid function please try again"
    ELSE IF function.NumIn # 1
    THEN "function must have exactly 1 argument"
    ELSE Nil

ToolDefinition(name, description, function) ==
    [Name |-> name, Description |-> description, Func |-> function,
     ArgsType |-> "WeatherArgs", Schema |-> "schema(WeatherArgs)"]

\* Register keeping the definition a name already has.
Register_KeepFirst(defs, name, description, function) ==
    IF RegisterErr(function) # Nil \/ name \in DOMAIN defs
    THEN defs
    ELSE [n \in DOMAIN defs \cup {name} |->
            IF n = name THEN ToolDefinition(name, description, function)
            ELSE defs[n]]

Register(defs, name, description, function) ==
    IF RegisterErr(function) # Nil
    THEN defs
    ELSE [n \in DOMAIN defs \cup {name} |->
            IF n = name THEN ToolDefinition(name, description, function)
            ELSE defs[n]]

ApiTool(def) ==
    [Type |-> "function",
     Function |-> [Name |-> def.Name, Description |-> def.Description,
                   Parameters |-> def.Schema]]

\* All orders in which the names of a set can be listed.
Orders(S) ==
    {o \in [1..Cardinality(S) -> S] : \A n \in S : \E i \in DOMAIN o : o[i] = n}

\* A Go slice that is nil, as opposed to one that is empty.
NilSlice == <<[nil |-> TRUE]>>

\* GetAllTools starting from `var result []llm.Tool`: nil when the loop
\* appends nothing.
GetAllTools_NilWhenEmpty(defs) ==
    IF DOMAIN defs = {}
    THEN {NilSlice}
    ELSE {[i \in 1..Cardinality(DOMAIN defs) |-> ApiTool(defs[o[i]])] :
            o \in Orders(DOMAIN defs)}

\* GetAllTools ranges over a Go map, whose iteration order is unspecified:
\* every listing of the definitions is a possible result.
GetAllTools(defs) ==
    {[i \in 1..Cardinality(DOMAIN defs) |-> ApiTool(defs[o[i]])] :
        o \in Orders(DOMAIN defs)}

-----------------------------------------------------------------------------
(* The environment of the Agent: what the caller passes and what a         *)
(* provider (any implementation of llm.ChatProvider) can answer.           *)

ModelName == "gemini-2.5-flash"

UserMsgs == {"", "What's the weather like in Paris right now?"}

\* The option lists handed to New: none (the defaults), or WithSystemPrompts
\* and WithMaxRetries.
Configs ==
    {[SystemPrompt |-> "", MaxRetries |-> 1],
     [SystemPrompt |-> "You are a helpful assistant.", MaxRetries |-> 3],
     [SystemPrompt |-> "", MaxRetries |-> 0]}

\* What the caller registers: two tools, and a value that is no function.
Registrations ==
    {<<"get_weather", "Get current weather for a city", GetWeather>>,
     <<"calculator", "Perform basic math operations", ReturnsInt>>,
     <<"get_weather", "Get current weather for a city", NotAFunction>>}

GoodArgs == "{\"city\":\"Paris\"}"

BadArgs == "[1]"

CallID(i) == "call_" \o ToString(i)

\* The calls a response can carry under the i-th identifier.  A ToolCall's
\* ID is unique within a response (llm.ToolCall.ID); the same identifiers
\* come back in later responses.
CallsWithID(i) ==
    CASE i = 1 -> {ToolCall(CallID(i), "get_weather", GoodArgs)}
      [] i = 2 -> {ToolCall(CallID(i), "calculator", GoodArgs),
                   ToolCall(CallID(i), "calculator", BadArgs)}
      [] OTHER -> {ToolCall(CallID(i), "lookup", GoodArgs)}

\* The tool-call lists of a response: up to MaxCalls calls, their
\* identifiers counting up from call_1 or down from the last one.
CallLists ==
    UNION {{cs \in [1..n -> UNION {CallsWithID(i) : i \in 1..MaxCalls}] :
              \/ \A k \in 1..n : cs[k] \in CallsWithID(k)
              \/ \A k \in 1..n : cs[k] \in CallsWithID(MaxCalls + 1 - k)} :
           n \in 0..MaxCalls}

Choice(msg, finishReason) == [Message |-> msg, FinishReason |-> finishReason]

ChatResponse(choices) == [Choices |-> choices]

ToolCallResponses ==
    {ChatResponse(<<Choice(Message("assistant", "Let me check.", "", cs, ""),
                           "tool_calls")>>) : cs \in CallLists}

StopResponses ==
    {ChatResponse(<<Choice(Message("assistant", "It is sunny in Paris.", "",
                                   NoCalls, ""), "stop")>>)}

OtherReasons == {"length", "content_filter"}

OtherResponses ==
    {ChatResponse(<<Choice(Message("assistant", "It is", "", NoCalls, ""), r)>>) :
        r \in OtherReasons}

NoChoicesResponse == ChatResponse(<<>>)

\* Why CreateChat can fail: the transport, or the caller's context.
FailCauses == {"HTTP request failed", "context canceled"}

-----------------------------------------------------------------------------
(* Package gemini: the responses of generateContent and mapResponse.       *)
(*                                                                         *)
(* A pointer or an `any` that may be absent is a sequence of no or one     *)
(* element; a JSON object is the sequence of its <<key, value>> pairs.     *)

gFunctionCall(name, args) == [Name |-> name, Args |-> args]

gPart(text, functionCall) ==
    [Text |-> text, FunctionCall |-> functionCall, FunctionResponse |-> <<>>]

geminiCandidate(parts, finishReason) ==
    [Content |-> [Role |-> "model", Parts |-> parts],
     FinishReason |-> finishReason]

geminiResponse(candidates) == [Candidates |-> candidates]

\* The functionCall parts the model can send in the i-th place; the
\* calculator is called with the city or without any args.
FunctionCallParts(i) ==
    CASE i = 1 -> {gPart("", <<gFunctionCall("get_weather",
                                             << <<<<"city", "Paris">>>> >>)>>)}
      [] i = 2 -> {gPart("", <<gFunctionCall("calculator",
                                             << <<<<"city", "Paris">>>> >>)>>),
                   gPart("", <<gFunctionCall("calculator", <<>>)>>)}
      [] OTHER -> {gPart("", <<gFunctionCall("lookup", << <<>> >>)>>)}

TextPart == gPart("It is sunny in Paris.", <<>>)

\* The finish reasons Gemini sends, one of them unknown to mapResponse.
GeminiReasons == {"STOP", "MAX_TOKENS", "SAFETY", "RECITATION", "BLOCKLIST",
                  "PROHIBITED_CONTENT", "MALFORMED_FUNCTION_CALL"}

\* What generateContent can answer: no candidate; text under any finish
\* reason; a text part and up to MaxCalls functionCall parts, under STOP
\* (as Gemini does) or under MAX_TOKENS.
GeminiResponses ==
    {geminiResponse(<<>>)}
    \cup {geminiResponse(<<geminiCandidate(<<TextPart>>, r)>>) :
             r \in GeminiReasons}
    \cup UNION {{geminiResponse(<<geminiCandidate(<<TextPart>> \o cs, r)>>) :
                    cs \in {x \in [1..n -> UNION {FunctionCallParts(i) :
                                                    i \in 1..MaxCalls}] :
                              \A k \in 1..n : x[k] \in FunctionCallParts(k)},
                    r \in {"STOP", "MAX_TOKENS"}} :
                n \in 1..MaxCalls}

\* The string put between the quotes as it is.
EscapeString_Raw(str) == str

\* The text of a string between the quotes json.Marshal puts around it:
\* a quote in the string gets a backslash.
EscapeString(str) ==
    CASE str = "5\" rain" -> "5\\\" rain"
      [] OTHER -> str

RECURSIVE MarshalFields(_)
MarshalFields(kvs) ==
    IF kvs = <<>> THEN ""
    ELSE "\"" \o kvs[1][1] \o "\":\"" \o EscapeString(kvs[1][2]) \o "\""
         \o (IF Len(kvs) > 1 THEN "," ELSE "") \o MarshalFields(Tail(kvs))

\* json.Marshal(part.FunctionCall.Args): the text of the object, and null
\* for args that are absent.
MarshalArgs(args) ==
    IF args = <<>> THEN "null" ELSE "{" \o MarshalFields(args[1]) \o "}"

RECURSIVE TextOf(_)
TextOf(parts) ==
    IF parts = <<>> THEN "" ELSE parts[1].Text \o TextOf(Tail(parts))

IsFunctionCall(part) == part.FunctionCall # <<>>

\* mapResponse, lines 351-370, taking the vendor's finish reason through
\* the table whether or not the model called a tool.
GeminiFinishReason_TrustVendor(toolCalls, finishReason) ==
    CASE finishReason = "STOP" -> "stop"
      [] finishReason = "MAX_TOKENS" -> "length"
      [] finishReason \in {"SAFETY", "RECITATION", "BLOCKLIST",
                           "PROHIBITED_CONTENT"} -> "content_filter"
      [] OTHER -> finishReason

\* mapResponse, lines 351-370.
GeminiFinishReason(toolCalls, finishReason) ==
    IF Len(toolCalls) > 0
    THEN "tool_calls"
    ELSE CASE finishReason = "STOP" -> "stop"
           [] finishReason = "MAX_TOKENS" -> "length"
           [] finishReason \in {"SAFETY", "RECITATION", "BLOCKLIST",
                                "PROHIBITED_CONTENT"} -> "content_filter"
           [] OTHER -> finishReason

\* mapResponse; ids[k] is what generateCallID returned for the k-th
\* functionCall part.
mapResponse(nativeResp, ids) ==
    IF Len(nativeResp.Candidates) = 0
    THEN ChatResponse(<<>>)
    ELSE LET candidate == nativeResp.Candidates[1]
             calls == SelectSeq(candidate.Content.Parts, IsFunctionCall)
             toolCalls == [k \in 1..Len(calls) |->
                             ToolCall(ids[k], calls[k].FunctionCall[1].Name,
                                      MarshalArgs(calls[k].FunctionCall[1].Args))]
         IN  ChatResponse(<<Choice(Message("assistant",
                                           TextOf(candidate.Content.Parts),
                                           "", toolCalls, ""),
                                   GeminiFinishReason(toolCalls,
                                                      candidate.FinishReason))>>)

\* generateCallID draws twelve random bytes for every call and ignores
\* the error of rand.Read: the identifiers differ, or, when the random
\* source fails and the bytes stay zero, they are all the same.
GeneratedIDs(n) == {[k \in 1..n |-> CallID(k)], [k \in 1..n |-> CallID(1)]}

FunctionCallCount(nativeResp) ==
    IF Len(nativeResp.Candidates) = 0 THEN 0
    ELSE Len(SelectSeq(nativeResp.Candidates[1].Content.Parts, IsFunctionCall))

\* What the Gemini client hands to Run.
GeminiAnswers ==
    UNION {{[native |-> g, resp |-> mapResponse(g, ids)] :
               ids \in GeneratedIDs(FunctionCallCount(g))} :
           g \in GeminiResponses}

-----------------------------------------------------------------------------
(* Package gemini: mapRequest.                                             *)

\* The empty JSON object, map[string]any{}.
EmptyObject == << <<>> >>

\* json.Unmarshal([]byte(text), &v) with v of type any: an object decodes
\* to a map (its pairs, keys ascending), null to nil, an array to its
\* elements under their places; a text that is no JSON fails.
UnmarshalAny(text) ==
    CASE text = "{}" -> [ok |-> TRUE, v |-> EmptyObject]
      [] text = "{\"city\":\"Paris\"}" ->
            [ok |-> TRUE, v |-> << <<<<"city", "Paris">>>> >>]
      [] text = "{\"unit\":\"C\"}" ->
            [ok |-> TRUE, v |-> << <<<<"unit", "C">>>> >>]
      [] text = "{\"city\":\"Paris\",\"unit\":\"C\"}" ->
            [ok |-> TRUE, v |-> << <<<<"city", "Paris">>, <<"unit", "C">>>> >>]
      [] text = "{\"unit\":\"C\",\"city\":\"Paris\"}" ->
            [ok |-> TRUE, v |-> << <<<<"city", "Paris">>, <<"unit", "C">>>> >>]
      [] text = "{\"note\":\"5\\\" rain\"}" ->
            [ok |-> TRUE, v |-> << <<<<"note", "5\" rain">>>> >>]
      [] text = "{\"city\":\"Paris\",\"note\":\"5\\\" rain\"}" ->
            [ok |-> TRUE,
             v |-> << <<<<"city", "Paris">>, <<"note", "5\" rain">>>> >>]
      [] text = "null" -> [ok |-> TRUE, v |-> <<>>]
      [] text = "[1]" -> [ok |-> TRUE, v |-> << <<<<"[0]", "1">>>> >>]
      [] OTHER -> [ok |-> FALSE, v |-> <<>>]

gFunctionResponse(name, response, id) ==
    [Name |-> name, Response |-> response, ID |-> id]

geminiContent(role, parts) == [Role |-> role, Parts |-> parts]

gFunctionDeclaration(name, description, parameters) ==
    [Name |-> name, Description |-> description, Parameters |-> parameters]

geminiRequest(contents, systemInstruction, tools) ==
    [Contents |-> contents, SystemInstruction |-> systemInstruction,
     Tools |-> tools]

\* The arguments left nil when the text does not decode.
GeminiArgs_NilOnFailure(arguments) == UnmarshalAny(arguments).v

\* Lines 227-231 of mapRequest: the arguments text of a call as the value
\* Gemini wants, and an empty map for a text that does not decode.
GeminiArgs(arguments) ==
    IF UnmarshalAny(arguments).ok THEN UnmarshalAny(arguments).v
    ELSE EmptyObject

\* The parts of the model content made of an assistant message with tool
\* calls, lines 219-239.
FunctionCallPartsOf(msg) ==
    (IF msg.Content # "" THEN <<gPart(msg.Content, <<>>)>> ELSE <<>>)
    \o [k \in 1..Len(msg.ToolCalls) |->
          gPart("", <<gFunctionCall(msg.ToolCalls[k].Function.Name,
                                    GeminiArgs(msg.ToolCalls[k].Function.Arguments))>>)]

\* The functionResponse part of a tool message, lines 254-270.
FunctionResponsePart(msg) ==
    [Text |-> "", FunctionCall |-> <<>>,
     FunctionResponse |->
         <<gFunctionResponse(msg.Name,
                             << <<<<"return_value", msg.Content>>>> >>,
                             msg.ToolCallID)>>]

\* The loop of mapRequest over req.Messages, lines 201-272: what it
\* appends to `contents`.
RECURSIVE GeminiContents(_)
GeminiContents(msgs) ==
    IF msgs = <<>> THEN <<>>
    ELSE LET msg == Head(msgs)
             rest == GeminiContents(Tail(msgs))
         IN  CASE msg.Role = "user" ->
                    <<geminiContent("user", <<gPart(msg.Content, <<>>)>>)>> \o rest
               [] msg.Role = "assistant" /\ Len(msg.ToolCalls) > 0 ->
                    <<geminiContent("model", FunctionCallPartsOf(msg))>> \o rest
               [] msg.Role = "assistant" /\ Len(msg.ToolCalls) = 0 ->
                    <<geminiContent("model", <<gPart(msg.Content, <<>>)>>)>> \o rest
               [] msg.Role = "tool" ->
                    <<geminiContent("user", <<FunctionResponsePart(msg)>>)>> \o rest
               [] OTHER -> rest

\* The same loop: the parts it appends to the system instruction.
RECURSIVE SystemParts(_)
SystemParts(msgs) ==
    IF msgs = <<>> THEN <<>>
    ELSE (IF Head(msgs).Role = "system"
          THEN <<gPart(Head(msgs).Content, <<>>)>> ELSE <<>>)
         \o SystemParts(Tail(msgs))

\* mapRequest, lines 196-306, without the generation config.
mapRequest(r) ==
    geminiRequest(
        GeminiContents(r.Messages),
        IF SystemParts(r.Messages) = <<>> THEN <<>>
        ELSE <<[Role |-> "user", Parts |-> SystemParts(r.Messages)]>>,
        IF Len(r.Tools) > 0
        THEN <<[FunctionDeclarations |->
                  [k \in 1..Len(r.Tools) |->
                      gFunctionDeclaration(r.Tools[k].Function.Name,
                                           r.Tools[k].Function.Description,
                                           r.Tools[k].Function.Parameters)]]>>
        ELSE <<>>)

-----------------------------------------------------------------------------
(* Package anthropic: the Messages API types, mapRequest and mapResponse.  *)
(*                                                                         *)
(* The content of an anthropicMessage is a json.RawMessage made by         *)
(* json.Marshal of a string or of a list of content blocks; it is held     *)
(* here as what was marshalled.                                            *)

contentBlock(type, text, id, name, input, toolUseID, resultContent, isError) ==
    [Type |-> type, Text |-> text, ID |-> id, Name |-> name, Input |-> input,
     ToolUseID |-> toolUseID, ResultContent |-> resultContent,
     IsError |-> isError]

\* contentJSON, _ := json.Marshal(msg.Content)
StringContent(text) == [Kind |-> "string", Text |-> text, Blocks |-> <<>>]

\* contentJSON, _ := json.Marshal(blocks)
BlocksContent(blocks) == [Kind |-> "blocks", Text |-> "", Blocks |-> blocks]

anthropicMessage(role, content) == [Role |-> role, Content |-> content]

anthropicTool(name, description, inputSchema) ==
    [Name |-> name, Description |-> description, InputSchema |-> inputSchema]

anthropicRequest(model, system, messages, tools) ==
    [Model |-> model, System |-> system, Messages |-> messages,
     Tools |-> tools]

responseBlock(type, text, id, name, input) ==
    [Type |-> type, Text |-> text, ID |-> id, Name |-> name, Input |-> input]

anthropicResponse(content, stopReason) ==
    [Content |-> content, StopReason |-> stopReason]

\* Lines 291-295 of mapRequest: the arguments text of a call as the input
\* of a tool_use block, and an empty map for a text that does not decode.
AnthropicInput(arguments) ==
    IF UnmarshalAny(arguments).ok THEN UnmarshalAny(arguments).v
    ELSE EmptyObject

\* The blocks of an assistant message with tool calls, lines 281-303.
ToolUseBlocksOf(msg) ==
    (IF msg.Content # ""
     THEN <<contentBlock("text", msg.Content, "", "", <<>>, "", "", FALSE)>>
     ELSE <<>>)
    \o [k \in 1..Len(msg.ToolCalls) |->
          contentBlock("tool_use", "", msg.ToolCalls[k].ID,
                       msg.ToolCalls[k].Function.Name,
                       AnthropicInput(msg.ToolCalls[k].Function.Arguments),
                       "", "", FALSE)]

\* The block of a tool message with is_error set.
ToolResultBlock_IsError(msg) ==
    contentBlock("tool_result", "", "", "", <<>>, msg.ToolCallID, msg.Content,
                 TRUE)

\* The block of a tool message, lines 322-328.
ToolResultBlock(msg) ==
    contentBlock("tool_result", "", "", "", <<>>, msg.ToolCallID, msg.Content,
                 FALSE)

\* The loop of mapRequest over req.Messages, lines 262-335: what it
\* appends to `messages`.
RECURSIVE AnthropicMessages(_)
AnthropicMessages(msgs) ==
    IF msgs = <<>> THEN <<>>
    ELSE LET msg == Head(msgs)
             rest == AnthropicMessages(Tail(msgs))
         IN  CASE msg.Role = "user" ->
                    <<anthropicMessage("user", StringContent(msg.Content))>>
                    \o rest
               [] msg.Role = "assistant" /\ Len(msg.ToolCalls) > 0 ->
                    <<anthropicMessage("assistant",
                                       BlocksContent(ToolUseBlocksOf(msg)))>>
                    \o rest
               [] msg.Role = "assistant" /\ Len(msg.ToolCalls) = 0 ->
                    <<anthropicMessage("assistant", StringContent(msg.Content))>>
                    \o rest
               [] msg.Role = "tool" ->
                    <<anthropicMessage("user",
                                       BlocksContent(<<ToolResultBlock(msg)>>))>>
                    \o rest
               [] OTHER -> rest

\* The same loop keeping the first system message only.
RECURSIVE SystemPromptOf_FirstOnly(_, _)
SystemPromptOf_FirstOnly(msgs, systemPrompt) ==
    IF msgs = <<>> THEN systemPrompt
    ELSE IF Head(msgs).Role = "system" /\ systemPrompt = ""
    THEN SystemPromptOf_FirstOnly(Tail(msgs), Head(msgs).Content)
    ELSE SystemPromptOf_FirstOnly(Tail(msgs), systemPrompt)

\* The same loop, lines 265-271: what it makes of `systemPrompt`, which
\* is `systemPrompt` before the messages `msgs`.
RECURSIVE SystemPromptOf(_, _)
SystemPromptOf(msgs, systemPrompt) ==
    IF msgs = <<>> THEN systemPrompt
    ELSE IF Head(msgs).Role = "system"
    THEN SystemPromptOf(Tail(msgs),
                        (IF systemPrompt # "" THEN systemPrompt \o "\n"
                         ELSE systemPrompt) \o Head(msgs).Content)
    ELSE SystemPromptOf(Tail(msgs), systemPrompt)

\* anthropic.mapRequest, lines 257-363, without max_tokens and the
\* sampling parameters.
anthropicMapRequest(r) ==
    anthropicRequest(r.Model, SystemPromptOf(r.Messages, ""),
                     AnthropicMessages(r.Messages),
                     [k \in 1..Len(r.Tools) |->
                         anthropicTool(r.Tools[k].Function.Name,
                                       r.Tools[k].Function.Description,
                                       r.Tools[k].Function.Parameters)])

\* The loop of mapResponse over resp.Content, lines 373-394: the text.
RECURSIVE TextContentOf(_)
TextContentOf(blocks) ==
    IF blocks = <<>> THEN ""
    ELSE (IF Head(blocks).Type = "text" THEN Head(blocks).Text ELSE "")
         \o TextContentOf(Tail(blocks))

IsToolUse(block) == block.Type = "tool_use"

\* The same loop: the tool calls.
ToolCallsOf(blocks) ==
    LET uses == SelectSeq(blocks, IsToolUse)
    IN  [k \in 1..Len(uses) |->
            ToolCall(uses[k].ID, uses[k].Name, MarshalArgs(uses[k].Input))]

\* The stop reason decided by the blocks, as the Gemini client does.
AnthropicFinishReason_ByContent(nativeResp) ==
    IF Len(SelectSeq(nativeResp.Content, IsToolUse)) > 0 THEN "tool_calls"
    ELSE CASE nativeResp.StopReason = "end_turn" -> "stop"
           [] nativeResp.StopReason = "max_tokens" -> "length"
           [] OTHER -> nativeResp.StopReason

\* mapResponse, lines 396-408.
AnthropicFinishReason(nativeResp) ==
    CASE nativeResp.StopReason = "end_turn" -> "stop"
      [] nativeResp.StopReason = "tool_use" -> "tool_calls"
      [] nativeResp.StopReason = "max_tokens" -> "length"
      [] OTHER -> nativeResp.StopReason

\* anthropic.mapResponse, lines 366-431, without the usage.
anthropicMapResponse(nativeResp) ==
    ChatResponse(<<Choice(Message("assistant", TextContentOf(nativeResp.Content),
                                  "", ToolCallsOf(nativeResp.Content), ""),
                          AnthropicFinishReason(nativeResp))>>)

\* The tool_use blocks Claude can send in the i-th place.
ToolUseBlocks(i) ==
    CASE i = 1 -> {responseBlock("tool_use", "", CallID(i), "get_weather",
                                 << <<<<"city", "Paris">>>> >>)}
      [] i = 2 -> {responseBlock("tool_use", "", CallID(i), "calculator",
                                 << <<<<"city", "Paris">>>> >>),
                   responseBlock("tool_use", "", CallID(i), "calculator",
                                 EmptyObject)}
      [] OTHER -> {responseBlock("tool_use", "", CallID(i), "lookup",
                                 EmptyObject)}

TextBlock == responseBlock("text", "It is sunny in Paris.", "", "", <<>>)

\* The stop reasons of the Messages API, one of them unknown to
\* mapResponse.
StopReasons == {"end_turn", "tool_use", "max_tokens", "stop_sequence",
                "pause_turn"}

\* What the Messages API can answer: text under any stop reason; text
\* and up to MaxCalls tool_use blocks, under tool_use (as Claude does) or
\* under max_tokens or end_turn.
AnthropicResponses ==
    {anthropicResponse(<<TextBlock>>, r) : r \in StopReasons}
    \cup UNION {{anthropicResponse(<<TextBlock>> \o bs, r) :
                    bs \in {x \in [1..n -> UNION {ToolUseBlocks(i) :
                                                    i \in 1..MaxCalls}] :
                              \A k \in 1..n : x[k] \in ToolUseBlocks(k)},
                    r \in {"tool_use", "max_tokens", "end_turn"}} :
                n \in 1..MaxCalls}

\* What the Anthropic client hands to Run.
AnthropicAnswers ==
    {[native |-> a, resp |-> anthropicMapResponse(a)] : a \in AnthropicResponses}

-----------------------------------------------------------------------------
(* What the Agent's provider hands to Run.                                 *)

HasChoices(r) == Len(r.Choices) > 0

\* What the OpenAI client hands to Run: the decoded body as it came.
OpenAIAnswers ==
    {[native |-> r, resp |-> r] :
        r \in ToolCallResponses \cup StopResponses \cup OtherResponses
                 \cup {NoChoicesResponse}}

\* What CreateChat of the Agent's provider can return without error: the
\* provider's own answer and the llm.ChatResponse made of it.
Answers ==
    CASE provider = "gemini" -> GeminiAnswers
      [] provider = "anthropic" -> AnthropicAnswers
      [] OTHER -> OpenAIAnswers

\* The answers whose first choice has the finish reason `reason`.
Finished(reason) ==
    {a \in Answers :
        HasChoices(a.resp) /\ a.resp.Choices[1].FinishReason = reason}

-----------------------------------------------------------------------------
(* agent/agent.go                                                          *)

ChatRequest(model, messages, tools) ==
    [Model |-> model, Messages |-> messages, Tools |-> tools]

NoRequest == ChatRequest("", <<>>, <<>>)

\* What resp holds before any response, and when CreateChat failed.
NoResponse == ChatResponse(<<>>)

RunResult(text, error) == [text |-> text, err |-> error]

\* No Run has returned yet, or one is in progress.
Pending == RunResult("", "<pending>")

\* choice := resp.Choices[0], line 214.
choice == resp.Choices[1]

\* An operation and what it was given from outside the program.
Op(name, arg) == [name |-> name, arg |-> arg]

NoOp == Op("New", <<>>)

\* What CreateChat came back with: which call it was, its error or the
\* provider's answer, and the order in which the tools were listed if Run
\* re-entered on it.
Answered(e, native) ==
    Op("CreateChat", [call |-> llmCalls, err |-> e, native |-> native,
                      tools |-> req'.Tools])

\* The four notifications of agent.Callback, as DebugCallback prints them.
OnLLMRequest(r) == [On |-> "LLMRequest", arg |-> Len(r.Messages)]

OnLLMResponse(r) == [On |-> "LLMResponse", arg |-> Len(r.Choices)]

OnToolCall(name, args) == [On |-> "ToolCall", arg |-> <<name, args>>]

OnToolResult(name, r) == [On |-> "ToolResult", arg |-> <<name, r.result, r.err>>]

\* if a.callback != nil { a.callback.On...(...) }: the notifications `es`
\* reach the callback after `evs` when one is attached.
Notified(evs, es) == IF callback THEN evs \o es ELSE evs

\* New: the defaults, the options, then the system prompt as first message.
New(p, cb) ==
    \E cfg \in Configs :
        /\ SystemPrompt = cfg.SystemPrompt
        /\ MaxRetries = cfg.MaxRetries
        /\ History = IF cfg.SystemPrompt # ""
                     THEN <<NewSystemMessage(cfg.SystemPrompt)>>
                     ELSE <<>>
        /\ definitions = [n \in {} |-> ToolDefinition(n, "", GetWeather)]
        /\ provider = p
        /\ callback = cb
        /\ events = <<>>
        /\ op = NoOp
        /\ pc = "AwaitingInput"
        /\ usrMsg = ""
        /\ req = NoRequest
        /\ resp = NoResponse
        /\ err = Nil
        /\ idx = 0
        /\ inflight = FALSE
        /\ result = Pending
        /\ llmCalls = 0
        /\ runCalls = 0
        /\ rounds = 0
        /\ runStart = 0
        /\ frameStart = 0
        /\ asstAt = 0
        /\ execLog = <<>>

\* One Agent on the OpenAI client, no callback, one goroutine calling it.
Init ==
    /\ New("openai", FALSE)
    /\ twin = <<>>
    /\ other = <<>>

\* An Agent with a system prompt on the Gemini client.
InitGemini ==
    /\ New("gemini", FALSE)
    /\ SystemPrompt # ""
    /\ twin = <<>>
    /\ other = <<>>

\* RegisterTool, called between Runs.
RegisterTool ==
    /\ pc = "AwaitingInput"
    /\ \E r \in Registrations :
          /\ definitions' = Register(definitions, r[1], r[2], r[3])
          /\ op' = Op("RegisterTool", r)
    /\ UNCHANGED <<History, SystemPrompt, MaxRetries, pc, usrMsg, req, resp,
                   err, idx, inflight, result, llmCalls, runCalls, rounds,
                   runStart, frameStart, asstAt, execLog, events>>
    /\ UNCHANGED aside

\* Enter appending a user turn whatever the message is.
Enter_AlwaysAppends(h, m) ==
    /\ History' = Append(h, NewUserMessage(m))
    /\ \E tools \in GetAllTools(definitions) :
          req' = ChatRequest(ModelName, History', tools)
    /\ usrMsg' = m
    /\ frameStart' = Len(h)
    /\ llmCalls' = llmCalls + 1
    /\ pc' = "RequestSent"

\* Enter with the tools attached only when a user turn is sent, and left
\* out of the re-entry after a tool round.
Enter_ToolsOnlyFirst(h, m) ==
    /\ History' = IF m # "" THEN Append(h, NewUserMessage(m)) ELSE h
    /\ \E tools \in GetAllTools(definitions) :
          req' = ChatRequest(ModelName, History', IF m # "" THEN tools ELSE <<>>)
    /\ usrMsg' = m
    /\ frameStart' = Len(h)
    /\ llmCalls' = llmCalls + 1
    /\ pc' = "RequestSent"

\* Run, lines 171-198: the user turn, the request, and the provider call
\* issued.  `h` is the history at entry and `m` the message; the caller's
\* Run and the re-entry after a tool round both come through here.
Enter(h, m) ==
    /\ History' = IF m # "" THEN Append(h, NewUserMessage(m)) ELSE h
    /\ \E tools \in GetAllTools(definitions) :
          req' = ChatRequest(ModelName, History', tools)
    /\ usrMsg' = m
    /\ frameStart' = Len(h)
    /\ llmCalls' = llmCalls + 1
    /\ pc' = "RequestSent"

\* The caller calls Run(ctx, m).
Run ==
    /\ pc = "AwaitingInput"
    /\ llmCalls < MaxLLMCalls
    /\ \E m \in UserMsgs : Enter(History, m)
    /\ events' = Notified(<<>>, <<OnLLMRequest(req')>>)
    /\ op' = Op("Run", <<usrMsg', req'.Tools>>)
    /\ runStart' = Len(History)
    /\ runCalls' = 1
    /\ rounds' = 1
    /\ result' = Pending
    /\ idx' = 0
    /\ asstAt' = 0
    /\ execLog' = <<>>
    /\ UNCHANGED <<definitions, SystemPrompt, MaxRetries, resp, err, inflight>>
    /\ UNCHANGED aside

\* return a.Run(ctx, ""), line 257.
ReEnter(h) ==
    /\ Enter(h, "")
    /\ runCalls' = runCalls + 1
    /\ rounds' = rounds + 1

\* Run returns to its caller.
Return(text, error) ==
    /\ result' = RunResult(text, error)
    /\ pc' = "AwaitingInput"

\* CreateChatFails with MaxRetries wired to a retry loop: the call is
\* issued again when retries are configured.
CreateChatFails_Retry ==
    /\ pc = "RequestSent"
    /\ req' = NoRequest
    /\ \E cause \in FailCauses :
          /\ err' = cause
          /\ op' = Answered(cause, NoResponse)
          /\ IF MaxRetries > 1 /\ llmCalls < MaxLLMCalls
             THEN /\ llmCalls' = llmCalls + 1
                  /\ runCalls' = runCalls + 1
                  /\ UNCHANGED <<pc, result>>
             ELSE /\ Return("", "LLM call failed: " \o cause)
                  /\ UNCHANGED <<llmCalls, runCalls>>
    /\ resp' = NoResponse
    /\ UNCHANGED <<History, definitions, SystemPrompt, MaxRetries, usrMsg,
                   idx, inflight, rounds, runStart, frameStart, asstAt,
                   execLog, events>>
    /\ UNCHANGED aside

\* CreateChatFails undoing what its Run invocation appended.
CreateChatFails_Rollback ==
    /\ pc = "RequestSent"
    /\ req' = NoRequest
    /\ \E cause \in FailCauses :
          /\ err' = cause
          /\ op' = Answered(cause, NoResponse)
          /\ Return("", "LLM call failed: " \o cause)
    /\ resp' = NoResponse
    /\ History' = SubSeq(History, 1, frameStart)
    /\ UNCHANGED <<definitions, SystemPrompt, MaxRetries, usrMsg, idx,
                   inflight, llmCalls, runCalls, rounds, runStart, frameStart,
                   asstAt, execLog, events>>
    /\ UNCHANGED aside

\* CreateChat returns an error, lines 201-203.
CreateChatFails ==
    /\ pc = "RequestSent"
    /\ req' = NoRequest
    /\ \E cause \in FailCauses :
          /\ err' = cause
          /\ op' = Answered(cause, NoResponse)
          /\ Return("", "LLM call failed: " \o cause)
    /\ resp' = NoResponse
    /\ UNCHANGED <<History, definitions, SystemPrompt, MaxRetries, usrMsg,
                   idx, inflight, llmCalls, runCalls, rounds, runStart,
                   frameStart, asstAt, execLog, events>>
    /\ UNCHANGED aside

\* NoChoices taking back the user turn before it fails.
NoChoices_DropsUserTurn ==
    /\ pc = "RequestSent"
    /\ req' = NoRequest
    /\ \E a \in {x \in Answers : ~HasChoices(x.resp)} :
          /\ resp' = a.resp
          /\ op' = Answered(Nil, a.native)
    /\ err' = Nil
    /\ events' = Notified(events, <<OnLLMResponse(resp')>>)
    /\ Return("", "LLM returned no choices")
    /\ History' = SubSeq(History, 1, frameStart)
    /\ UNCHANGED <<definitions, SystemPrompt, MaxRetries, usrMsg, idx,
                   inflight, llmCalls, runCalls, rounds, runStart, frameStart,
                   asstAt, execLog>>
    /\ UNCHANGED aside

\* A response without choices, lines 206-212.
NoChoices ==
    /\ pc = "RequestSent"
    /\ req' = NoRequest
    /\ \E a \in {x \in Answers : ~HasChoices(x.resp)} :
          /\ resp' = a.resp
          /\ op' = Answered(Nil, a.native)
    /\ err' = Nil
    /\ events' = Notified(events, <<OnLLMResponse(resp')>>)
    /\ Return("", "LLM returned no choices")
    /\ UNCHANGED <<History, definitions, SystemPrompt, MaxRetries, usrMsg,
                   idx, inflight, llmCalls, runCalls, rounds, runStart,
                   frameStart, asstAt, execLog>>
    /\ UNCHANGED aside

\* ToolCallsBranch going into the tool loop without appending the
\* assistant's tool-call message.
ToolCallsBranch_NoAppend ==
    /\ pc = "RequestSent"
    /\ llmCalls < MaxLLMCalls
    /\ \E a \in Finished("tool_calls") :
          LET calls == a.resp.Choices[1].Message.ToolCalls
              h == History
          IN  /\ resp' = a.resp
              /\ asstAt' = Len(h)
              /\ IF calls = <<>>
                 THEN /\ ReEnter(h)
                      /\ idx' = 0
                      /\ events' = Notified(events, <<OnLLMResponse(resp'),
                                                      OnLLMRequest(req')>>)
                 ELSE /\ History' = h
                      /\ idx' = 1
                      /\ pc' = "ExecutingTools"
                      /\ req' = NoRequest
                      /\ events' = Notified(events, <<OnLLMResponse(resp')>>)
                      /\ UNCHANGED <<usrMsg, llmCalls, runCalls, rounds,
                                     frameStart>>
              /\ op' = Answered(Nil, a.native)
    /\ err' = Nil
    /\ execLog' = <<>>
    /\ UNCHANGED <<definitions, SystemPrompt, MaxRetries, inflight, result,
                   runStart>>
    /\ UNCHANGED aside

\* finishReason == "tool_calls", lines 206-223 (and 257 when the response
\* names no call at all).
ToolCallsBranch ==
    /\ pc = "RequestSent"
    /\ llmCalls < MaxLLMCalls
    /\ \E a \in Finished("tool_calls") :
          LET calls == a.resp.Choices[1].Message.ToolCalls
              h == Append(History, NewToolCallMessage(calls))
          IN  /\ resp' = a.resp
              /\ asstAt' = Len(h)
              /\ IF calls = <<>>
                 THEN /\ ReEnter(h)
                      /\ idx' = 0
                      /\ events' = Notified(events, <<OnLLMResponse(resp'),
                                                      OnLLMRequest(req')>>)
                 ELSE /\ History' = h
                      /\ idx' = 1
                      /\ pc' = "ExecutingTools"
                      /\ req' = NoRequest
                      /\ events' = Notified(events, <<OnLLMResponse(resp')>>)
                      /\ UNCHANGED <<usrMsg, llmCalls, runCalls, rounds,
                                     frameStart>>
              /\ op' = Answered(Nil, a.native)
    /\ err' = Nil
    /\ execLog' = <<>>
    /\ UNCHANGED <<definitions, SystemPrompt, MaxRetries, inflight, result,
                   runStart>>
    /\ UNCHANGED aside

\* The loop walking the calls from the last to the first.
CallAt_Reversed(calls, i) == calls[Len(calls) + 1 - i]

\* for _, call := range choice.Message.ToolCalls, line 227: the call of
\* the i-th iteration.
CallAt(calls, i) == calls[i]

\* The tool loop calls Execute for call idx, lines 227-236.
ToolStart ==
    /\ pc = "ExecutingTools"
    /\ ~inflight
    /\ inflight' = TRUE
    /\ LET call == CallAt(choice.Message.ToolCalls, idx)
       IN  /\ execLog' = Append(execLog, call.ID)
           /\ events' = Notified(events, <<OnToolCall(call.Function.Name,
                                                      call.Function.Arguments)>>)
    /\ op' = Op("Execute", <<>>)
    /\ UNCHANGED <<History, definitions, SystemPrompt, MaxRetries, pc, usrMsg,
                   req, resp, err, idx, result, llmCalls, runCalls, rounds,
                   runStart, frameStart, asstAt>>
    /\ UNCHANGED aside

\* The message for an executed call, lines 244-251.
ToolMessage(call, r) ==
    IF r.err # Nil
    THEN NewToolError(call.ID, call.Function.Name, r.err)
    ELSE NewToolResult(call.ID, call.Function.Name, r.result)

\* ToolReturn with the append of the tool message inside the
\* `if a.callback != nil` block.
ToolReturn_AppendWhenObserved ==
    /\ pc = "ExecutingTools"
    /\ inflight
    /\ LET call == CallAt(choice.Message.ToolCalls, idx)
           r == Execute(definitions, call.Function.Name, call.Function.Arguments)
           h == IF callback THEN Append(History, ToolMessage(call, r))
                ELSE History
           told == <<OnToolResult(call.Function.Name, r)>>
       IN  IF idx < Len(choice.Message.ToolCalls)
           THEN /\ History' = h
                /\ idx' = idx + 1
                /\ events' = Notified(events, told)
                /\ UNCHANGED <<pc, usrMsg, req, llmCalls, runCalls, rounds,
                               frameStart>>
           ELSE /\ ReEnter(h)
                /\ idx' = 0
                /\ events' = Notified(events, told \o <<OnLLMRequest(req')>>)
    /\ inflight' = FALSE
    /\ op' = Op("ExecuteReturns", req'.Tools)
    /\ UNCHANGED <<definitions, SystemPrompt, MaxRetries, resp, err, result,
                   runStart, asstAt, execLog>>
    /\ UNCHANGED aside

\* ToolReturn handing a tool's error to the caller of Run.
ToolReturn_AbortOnError ==
    /\ pc = "ExecutingTools"
    /\ inflight
    /\ LET call == CallAt(choice.Message.ToolCalls, idx)
           r == Execute(definitions, call.Function.Name, call.Function.Arguments)
           h == Append(History, ToolMessage(call, r))
           told == <<OnToolResult(call.Function.Name, r)>>
       IN  IF r.err # Nil
           THEN /\ Return("", r.err)
                /\ events' = Notified(events, told)
                /\ UNCHANGED <<History, usrMsg, req, llmCalls, runCalls,
                               rounds, frameStart, idx>>
           ELSE /\ UNCHANGED result
                /\ IF idx < Len(choice.Message.ToolCalls)
                   THEN /\ History' = h
                        /\ idx' = idx + 1
                        /\ events' = Notified(events, told)
                        /\ UNCHANGED <<pc, usrMsg, req, llmCalls, runCalls,
                                       rounds, frameStart>>
                   ELSE /\ ReEnter(h)
                        /\ idx' = 0
                        /\ events' = Notified(events,
                                              told \o <<OnLLMRequest(req')>>)
    /\ inflight' = FALSE
    /\ op' = Op("ExecuteReturns", req'.Tools)
    /\ UNCHANGED <<definitions, SystemPrompt, MaxRetries, resp, err,
                   runStart, asstAt, execLog>>
    /\ UNCHANGED aside

\* Execute returns, lines 236-257: the tool message is appended, and the
\* loop goes on to the next call or Run re-enters itself.
ToolReturn ==
    /\ pc = "ExecutingTools"
    /\ inflight
    /\ LET call == CallAt(choice.Message.ToolCalls, idx)
           r == Execute(definitions, call.Function.Name, call.Function.Arguments)
           h == Append(History, ToolMessage(call, r))
           told == <<OnToolResult(call.Function.Name, r)>>
       IN  IF idx < Len(choice.Message.ToolCalls)
           THEN /\ History' = h
                /\ idx' = idx + 1
                /\ events' = Notified(events, told)
                /\ UNCHANGED <<pc, usrMsg, req, llmCalls, runCalls, rounds,
                               frameStart>>
           ELSE /\ ReEnter(h)
                /\ idx' = 0
                /\ events' = Notified(events, told \o <<OnLLMRequest(req')>>)
    /\ inflight' = FALSE
    /\ op' = Op("ExecuteReturns", req'.Tools)
    /\ UNCHANGED <<definitions, SystemPrompt, MaxRetries, resp, err, result,
                   runStart, asstAt, execLog>>
    /\ UNCHANGED aside

\* finishReason == "stop", lines 206-266.
StopBranch ==
    /\ pc = "RequestSent"
    /\ req' = NoRequest
    /\ \E a \in Finished("stop") :
          LET assistantContent == a.resp.Choices[1].Message.Content
          IN  /\ resp' = a.resp
              /\ op' = Answered(Nil, a.native)
              /\ History' = Append(History, NewAssistantMessage(assistantContent))
              /\ Return(assistantContent, Nil)
    /\ err' = Nil
    /\ events' = Notified(events, <<OnLLMResponse(resp')>>)
    /\ UNCHANGED <<definitions, SystemPrompt, MaxRetries, usrMsg, idx,
                   inflight, llmCalls, runCalls, rounds, runStart, frameStart,
                   asstAt, execLog>>
    /\ UNCHANGED aside

\* OtherBranch treating every finish reason that is not tool_calls as stop.
OtherBranch_AsStop ==
    /\ pc = "RequestSent"
    /\ req' = NoRequest
    /\ \E a \in {x \in Answers :
                   /\ HasChoices(x.resp)
                   /\ x.resp.Choices[1].FinishReason \notin {"tool_calls", "stop"}} :
          /\ resp' = a.resp
          /\ op' = Answered(Nil, a.native)
          /\ History' = Append(History,
                               NewAssistantMessage(a.resp.Choices[1].Message.Content))
          /\ Return(a.resp.Choices[1].Message.Content, Nil)
    /\ err' = Nil
    /\ events' = Notified(events, <<OnLLMResponse(resp')>>)
    /\ UNCHANGED <<definitions, SystemPrompt, MaxRetries, usrMsg, idx,
                   inflight, llmCalls, runCalls, rounds, runStart, frameStart,
                   asstAt, execLog>>
    /\ UNCHANGED aside

\* Any other finish reason, lines 206-269.
OtherBranch ==
    /\ pc = "RequestSent"
    /\ req' = NoRequest
    /\ \E a \in {x \in Answers :
                   /\ HasChoices(x.resp)
                   /\ x.resp.Choices[1].FinishReason \notin {"tool_calls", "stop"}} :
          /\ resp' = a.resp
          /\ op' = Answered(Nil, a.native)
          /\ Return("", "unexpected finish_reason: "
                          \o a.resp.Choices[1].FinishReason)
    /\ err' = Nil
    /\ events' = Notified(events, <<OnLLMResponse(resp')>>)
    /\ UNCHANGED <<History, definitions, SystemPrompt, MaxRetries, usrMsg,
                   idx, inflight, llmCalls, runCalls, rounds, runStart,
                   frameStart, asstAt, execLog>>
    /\ UNCHANGED aside

Next ==
    \/ RegisterTool
    \/ Run
    \/ CreateChatFails
    \/ NoChoices
    \/ ToolCallsBranch
    \/ ToolStart
    \/ ToolReturn
    \/ StopBranch
    \/ OtherBranch

Spec == Init /\ [][Next]_vars

SpecGemini == InitGemini /\ [][Next]_vars

\* What Run does once it has been called: the provider call returns, with
\* an error or a response, and the tool being executed returns.
RunStep ==
    \/ CreateChatFails
    \/ NoChoices
    \/ ToolCallsBranch
    \/ ToolStart
    \/ ToolReturn
    \/ StopBranch
    \/ OtherBranch

\* Every provider call and every tool invocation returns, and Run, which
\* is sequential code, goes on from there.
SpecReturning == Init /\ [][Next]_vars /\ WF_vars(RunStep)

\* An Agent with a system prompt on the Anthropic client.
InitAnthropic ==
    /\ New("anthropic", FALSE)
    /\ SystemPrompt # ""
    /\ twin = <<>>
    /\ other = <<>>

\* mapResponse of this client always returns one choice.
NextAnthropic ==
    \/ RegisterTool
    \/ Run
    \/ CreateChatFails
    \/ ToolCallsBranch
    \/ ToolStart
    \/ ToolReturn
    \/ StopBranch
    \/ OtherBranch

SpecAnthropic == InitAnthropic /\ [][NextAnthropic]_vars

-----------------------------------------------------------------------------
(* Two Agents side by side: one with a DebugCallback attached, and a twin  *)
(* built with the same options but no callback.  The variables hold the    *)
(* Agent that is taking its step and `twin` holds the other one.  The      *)
(* Agent with the callback takes a step; then the twin takes the same      *)
(* step: the same operation, given the same things from outside.           *)

AgentState ==
    [History |-> History, definitions |-> definitions,
     SystemPrompt |-> SystemPrompt, MaxRetries |-> MaxRetries, pc |-> pc,
     usrMsg |-> usrMsg, req |-> req, resp |-> resp, err |-> err, idx |-> idx,
     inflight |-> inflight, result |-> result, llmCalls |-> llmCalls,
     runCalls |-> runCalls, rounds |-> rounds, runStart |-> runStart,
     frameStart |-> frameStart, asstAt |-> asstAt, execLog |-> execLog,
     provider |-> provider, callback |-> callback, events |-> events,
     op |-> op]

\* All of an Agent and of its Run in progress but the callback and what
\* the callback was told.
Observable(a) == [a EXCEPT !.callback = FALSE, !.events = <<>>]

InitObserver ==
    /\ New("openai", TRUE)
    /\ SystemPrompt # ""
    /\ twin = [AgentState EXCEPT !.callback = FALSE]
    /\ other = <<>>

\* The other Agent's turn.
SwapTwin ==
    /\ twin' = AgentState
    /\ History' = twin.History
    /\ definitions' = twin.definitions
    /\ SystemPrompt' = twin.SystemPrompt
    /\ MaxRetries' = twin.MaxRetries
    /\ pc' = twin.pc
    /\ usrMsg' = twin.usrMsg
    /\ req' = twin.req
    /\ resp' = twin.resp
    /\ err' = twin.err
    /\ idx' = twin.idx
    /\ inflight' = twin.inflight
    /\ result' = twin.result
    /\ llmCalls' = twin.llmCalls
    /\ runCalls' = twin.runCalls
    /\ rounds' = twin.rounds
    /\ runStart' = twin.runStart
    /\ frameStart' = twin.frameStart
    /\ asstAt' = twin.asstAt
    /\ execLog' = twin.execLog
    /\ provider' = twin.provider
    /\ callback' = twin.callback
    /\ events' = twin.events
    /\ op' = twin.op
    /\ UNCHANGED other

\* The two Agents have taken the same steps.
InStep == op.name = twin.op.name /\ op.arg = twin.op.arg

\* The Agent with the callback takes a step of its own.
Lead ==
    /\ callback
    /\ InStep
    /\ Next

\* It has taken one: the twin's turn.
TurnToTwin ==
    /\ callback
    /\ ~InStep
    /\ SwapTwin

\* The twin takes the step the other Agent took.
Follow ==
    /\ ~callback
    /\ ~InStep
    /\ Next
    /\ op'.name = twin.op.name
    /\ op'.arg = twin.op.arg

\* It has taken it: back to the Agent with the callback.
TurnBack ==
    /\ ~callback
    /\ InStep
    /\ SwapTwin

NextObserver ==
    \/ Lead
    \/ TurnToTwin
    \/ Follow
    \/ TurnBack

SpecObserver == InitObserver /\ [][NextObserver]_vars

-----------------------------------------------------------------------------
(* Two goroutines calling Run on one Agent.  The Agent's fields are shared *)
(* (History, the Registry, the options); each goroutine has the locals of  *)
(* its own Run.  The variables hold the locals of the goroutine that is    *)
(* taking steps, and `other` those of the goroutine that is waiting.       *)

\* The locals of Run, and what the goroutine calling it knows of its call.
Locals ==
    [pc |-> pc, usrMsg |-> usrMsg, req |-> req, resp |-> resp, err |-> err,
     idx |-> idx, inflight |-> inflight, result |-> result,
     runCalls |-> runCalls, rounds |-> rounds, runStart |-> runStart,
     frameStart |-> frameStart, asstAt |-> asstAt, execLog |-> execLog]

\* The step taken last ended with a.History = append(a.History, ...) and
\* did not read a.History afterwards: the tool-call message of a round with
\* calls (line 222), a tool message that is not the round's last (line
\* 252), or the final text (line 264).
JustAppended ==
    \/ op.name = "CreateChat" /\ pc = "ExecutingTools"
    \/ op.name = "CreateChat" /\ pc = "AwaitingInput" /\ result.err = Nil
    \/ op.name = "ExecuteReturns" /\ pc = "ExecutingTools"

\* The second goroutine has not called Run yet.  `overlapped` records that
\* a goroutine was left in the middle of its Run while the other one went
\* on; `mark` is the length of History if the waiting goroutine's last
\* step was an append, and 0 otherwise; `calls` is the number of provider
\* calls when it stopped; `switches` counts the turns of the scheduler.
InitConcurrent ==
    /\ New("openai", FALSE)
    /\ SystemPrompt # ""
    /\ twin = <<>>
    /\ other = [locals |-> Locals, overlapped |-> FALSE, mark |-> 0,
                calls |-> 0, switches |-> 0]

\* The scheduler lets the other goroutine go on.
Switch ==
    /\ other.switches < MaxSwitches
    /\ op.name # "Switch"
    /\ other' = [locals |-> Locals,
                 overlapped |-> other.overlapped \/ pc # "AwaitingInput",
                 mark |-> IF JustAppended THEN Len(History) ELSE 0,
                 calls |-> llmCalls,
                 switches |-> other.switches + 1]
    /\ pc' = other.locals.pc
    /\ usrMsg' = other.locals.usrMsg
    /\ req' = other.locals.req
    /\ resp' = other.locals.resp
    /\ err' = other.locals.err
    /\ idx' = other.locals.idx
    /\ inflight' = other.locals.inflight
    /\ result' = other.locals.result
    /\ runCalls' = other.locals.runCalls
    /\ rounds' = other.locals.rounds
    /\ runStart' = other.locals.runStart
    /\ frameStart' = other.locals.frameStart
    /\ asstAt' = other.locals.asstAt
    /\ execLog' = other.locals.execLog
    /\ op' = Op("Switch", <<>>)
    /\ UNCHANGED <<History, definitions, SystemPrompt, MaxRetries, llmCalls,
                   provider, callback, events, twin>>

\* A step of the running goroutine.  Tools are registered while no Run is
\* in progress on either goroutine.
Step ==
    /\ Next
    /\ op'.name = "RegisterTool" => other.locals.pc = "AwaitingInput"

\* a.History = append(a.History, m) on both goroutines at once, with no
\* synchronisation: both read the same slice header, both write element
\* len(a.History), and one of the two messages is gone.  The waiting
\* goroutine stopped right after its append, and this one has not touched
\* History since except for its own append.
LostAppend ==
    /\ JustAppended
    /\ other.mark > 0
    /\ Len(History) = other.mark + 1
    /\ llmCalls = other.calls
    /\ \E lost \in {other.mark, other.mark + 1} :
          History' = [k \in 1..other.mark |->
                        IF k < lost THEN History[k] ELSE History[k + 1]]
    /\ other' = [other EXCEPT !.mark = 0]
    /\ op' = Op("LostAppend", <<>>)
    /\ UNCHANGED <<definitions, SystemPrompt, MaxRetries, pc, usrMsg, req,
                   resp, err, idx, inflight, result, llmCalls, runCalls,
                   rounds, runStart, frameStart, asstAt, execLog, provider,
                   callback, events, twin>>

NextConcurrent ==
    \/ Step
    \/ Switch
    \/ LostAppend

SpecConcurrent == InitConcurrent /\ [][NextConcurrent]_vars

-----------------------------------------------------------------------------
(* The Registry called directly: Register, Execute and GetAllTools in any  *)
(* order, on values and argument texts of every shape.                     *)

ToolNames == {"get_weather", "calculator"}

Descriptions == {"Get current weather for a city",
                 "Get tomorrow's weather for a city"}

Values == {GetWeather, GetForecast, ReturnsAny, ReturnsInt, ReturnsNothing,
           NoArgs, TwoArgs, NotAFunction, NilValue}

\* Argument texts: objects with the field, without it and with a number in
\* it; null, an array, a string, a number, nothing, and a cut-off object.
ArgTexts == {GoodArgs, "{}", "{\"city\":1}", "null", BadArgs, "\"Paris\"",
             "1", "", "{"}

NoDefinition == ToolDefinition("", "", NilValue)

\* def, exists := r.definitions[name]
Lookup(defs, name) == IF name \in DOMAIN defs THEN defs[name] ELSE NoDefinition

\* registry.Register(name, description, function): op keeps the call, the
\* definition the name had before it, and the error it returned.
CallRegister ==
    /\ pc = "AwaitingInput"
    /\ \E name \in ToolNames, description \in Descriptions, function \in Values :
          LET call == [name |-> name, description |-> description,
                       function |-> function,
                       before |-> Lookup(definitions, name)]
          IN  IF Panics(function)
              THEN /\ pc' = "Panicked"
                   /\ op' = Op("Register", [call |-> call, returned |-> "panic"])
                   /\ UNCHANGED definitions
              ELSE /\ definitions' = Register(definitions, name, description,
                                              function)
                   /\ op' = Op("Register", [call |-> call,
                                            returned |-> RegisterErr(function)])
                   /\ UNCHANGED pc
    /\ UNCHANGED <<History, SystemPrompt, MaxRetries, usrMsg, req, resp, err,
                   idx, inflight, result, llmCalls, runCalls, rounds,
                   runStart, frameStart, asstAt, execLog, events>>
    /\ UNCHANGED aside

\* registry.Execute(name, argsJson).
CallExecute ==
    /\ pc = "AwaitingInput"
    /\ \E name \in ToolNames \cup {"lookup"}, argsJson \in ArgTexts :
          op' = Op("Execute", [call |-> [name |-> name, argsJson |-> argsJson],
                               returned |-> Execute(definitions, name, argsJson)])
    /\ UNCHANGED <<History, definitions, SystemPrompt, MaxRetries, pc, usrMsg,
                   req, resp, err, idx, inflight, result, llmCalls, runCalls,
                   rounds, runStart, frameStart, asstAt, execLog, events>>
    /\ UNCHANGED aside

\* registry.GetAllTools().
CallGetAllTools ==
    /\ pc = "AwaitingInput"
    /\ \E tools \in GetAllTools(definitions) :
          op' = Op("GetAllTools", [call |-> <<>>, returned |-> tools])
    /\ UNCHANGED <<History, definitions, SystemPrompt, MaxRetries, pc, usrMsg,
                   req, resp, err, idx, inflight, result, llmCalls, runCalls,
                   rounds, runStart, frameStart, asstAt, execLog, events>>
    /\ UNCHANGED aside

NextRegistry ==
    \/ CallRegister
    \/ CallExecute
    \/ CallGetAllTools

SpecRegistry == Init /\ [][NextRegistry]_vars

-----------------------------------------------------------------------------
(* The clients called directly: a canonical request handed to CreateChat   *)
(* of each client, and a vendor's tool call taken through mapResponse and  *)
(* back through mapRequest.  `req` is the canonical request, `resp` the    *)
(* canonical response decoded last, and `op` the translation made last.    *)

\* The messages a caller of CreateChat can put into a request.
MessagePool ==
    {NewSystemMessage("You are a helpful assistant."),
     NewSystemMessage("Be brief."),
     NewSystemMessage(""),
     NewUserMessage("What's the weather like in Paris right now?"),
     NewAssistantMessage("It is sunny in Paris."),
     NewToolCallMessage(<<ToolCall(CallID(1), "get_weather", GoodArgs)>>),
     NewToolCallMessage(<<ToolCall(CallID(1), "get_weather", "{\"city\":"),
                          ToolCall(CallID(2), "calculator", GoodArgs)>>),
     Message("assistant", "Let me check.", "",
             <<ToolCall(CallID(1), "get_weather", "")>>, ""),
     NewToolResult(CallID(1), "get_weather", "GetWeather(Paris)"),
     NewToolError(CallID(2), "calculator", "function did not return a string"),
     Message("developer", "Answer in French.", "", NoCalls, "")}

\* The tool lists of a request.
ToolLists ==
    {<<>>,
     <<ApiTool(ToolDefinition("get_weather", "Get current weather for a city",
                              GetWeather))>>,
     <<ApiTool(ToolDefinition("get_weather", "Get current weather for a city",
                              GetWeather)),
       ApiTool(ToolDefinition("calculator", "Perform basic math operations",
                              ReturnsInt))>>}

\* The model of a request: the one the client was made with, as Run puts
\* it, or another one.
Models == {ModelName, "gemini-2.5-pro"}

CanonicalRequests ==
    {ChatRequest(m, ms, ts) :
        m \in Models,
        ms \in UNION {[1..n -> MessagePool] : n \in 0..MaxMessages},
        ts \in ToolLists}

\* The JSON objects a vendor sends as the arguments of a tool call: maps,
\* held as their pairs with the keys ascending.
Objects ==
    {<<>>,
     <<<<"city", "Paris">>>>,
     <<<<"unit", "C">>>>,
     <<<<"note", "5\" rain">>>>,
     <<<<"city", "Paris">>, <<"unit", "C">>>>,
     <<<<"city", "Paris">>, <<"note", "5\" rain">>>>}

InitAdapters ==
    /\ req \in CanonicalRequests
    /\ resp = NoResponse
    /\ op = NoOp
    /\ History = <<>>
    /\ definitions = [n \in {} |-> ToolDefinition(n, "", GetWeather)]
    /\ SystemPrompt = ""
    /\ MaxRetries = 1
    /\ pc = "CreateChat"
    /\ usrMsg = ""
    /\ err = Nil
    /\ idx = 0
    /\ inflight = FALSE
    /\ result = Pending
    /\ llmCalls = 0
    /\ runCalls = 0
    /\ rounds = 0
    /\ runStart = 0
    /\ frameStart = 0
    /\ asstAt = 0
    /\ execLog = <<>>
    /\ provider = "none"
    /\ callback = FALSE
    /\ events = <<>>
    /\ twin = <<>>
    /\ other = <<>>

\* What a translation leaves alone.
untranslated ==
    <<History, definitions, SystemPrompt, MaxRetries, pc, usrMsg, err, idx,
      inflight, result, llmCalls, runCalls, rounds, runStart, frameStart,
      asstAt, execLog, provider, callback, events, twin, other>>

\* openai.Client.CreateChat: json.Marshal(req), the request as it is.
OpenAIRequest ==
    /\ pc = "CreateChat"
    /\ op' = Op("openai.CreateChat", [body |-> req])
    /\ UNCHANGED <<req, resp>>
    /\ UNCHANGED untranslated

\* gemini.Client.CreateChat: mapRequest(req) is the body, and the model the
\* client was made with goes into the URL.
GeminiRequest ==
    /\ pc = "CreateChat"
    /\ op' = Op("gemini.CreateChat", [body |-> mapRequest(req),
                                       url |-> ModelName])
    /\ UNCHANGED <<req, resp>>
    /\ UNCHANGED untranslated

\* anthropic.Client.CreateChat: mapRequest(req) is the body.
AnthropicRequest ==
    /\ pc = "CreateChat"
    /\ op' = Op("anthropic.CreateChat", [body |-> anthropicMapRequest(req)])
    /\ UNCHANGED <<req, resp>>
    /\ UNCHANGED untranslated

\* A Gemini response with one functionCall goes through mapResponse, and
\* the assistant message made of its tool calls goes through mapRequest.
GeminiRoundTrip ==
    /\ pc = "CreateChat"
    /\ \E O \in Objects :
          LET g == geminiResponse(<<geminiCandidate(
                       <<gPart("", <<gFunctionCall("get_weather", <<O>>)>>)>>,
                       "STOP")>>)
          IN  /\ resp' = mapResponse(g, <<CallID(1)>>)
              /\ req' = ChatRequest(ModelName,
                            <<NewToolCallMessage(
                                  resp'.Choices[1].Message.ToolCalls)>>, <<>>)
              /\ op' = Op("gemini.RoundTrip",
                          [response |-> g, body |-> mapRequest(req')])
    /\ UNCHANGED untranslated

\* An Anthropic response with one tool_use block goes through mapResponse,
\* and the assistant message made of its tool calls through mapRequest.
AnthropicRoundTrip ==
    /\ pc = "CreateChat"
    /\ \E O \in Objects :
          LET a == anthropicResponse(
                       <<responseBlock("tool_use", "", CallID(1),
                                       "get_weather", <<O>>)>>, "tool_use")
          IN  /\ resp' = anthropicMapResponse(a)
              /\ req' = ChatRequest(ModelName,
                            <<NewToolCallMessage(
                                  resp'.Choices[1].Message.ToolCalls)>>, <<>>)
              /\ op' = Op("anthropic.RoundTrip",
                          [response |-> a, body |-> anthropicMapRequest(req')])
    /\ UNCHANGED untranslated

NextAdapters ==
    \/ OpenAIRequest
    \/ GeminiRequest
    \/ AnthropicRequest
    \/ GeminiRoundTrip
    \/ AnthropicRoundTrip

SpecAdapters == InitAdapters /\ [][NextAdapters]_vars

-----------------------------------------------------------------------------
(* Properties of Agent.Run.                                                *)

IsPrefix(s, t) == Len(s) <= Len(t) /\ SubSeq(t, 1, Len(s)) = s

\* A tool round has just ended: Run has re-entered itself and waits for
\* the provider; History[asstAt] is the round's tool-call message.
RoundOver == pc = "RequestSent" /\ asstAt > 0

\* The messages appended after the round's tool-call message.
RoundMessages == SubSeq(History, asstAt + 1, Len(History))

\* C1. Tool-call linkage: after a tool_calls round, every tool message
\* appended in the round carries the identifier of exactly one call of the
\* assistant tool-call message right before them, and every identifier of
\* that message is carried by exactly one of the tool messages.
C1_ToolCallLinkage ==
    RoundOver =>
        LET calls == History[asstAt].ToolCalls
            ts == RoundMessages
        IN  /\ History[asstAt].Role = "assistant"
            /\ \A k \in DOMAIN ts :
                  /\ ts[k].Role = "tool"
                  /\ Cardinality({j \in DOMAIN calls :
                                    calls[j].ID = ts[k].ToolCallID}) = 1
            /\ \A j \in DOMAIN calls :
                  Cardinality({k \in DOMAIN ts :
                                 ts[k].ToolCallID = calls[j].ID}) = 1

\* A round of two calls is over, the first answered by a tool error and
\* the second by a tool result.
C1_Witness ==
    /\ RoundOver
    /\ Len(RoundMessages) = 2
    /\ RoundMessages[1].Content
         = "Error executing tool: function did not return a string. Please fix your arguments."
    /\ RoundMessages[2].Content = "GetWeather(Paris)"

\* C2. The calls of one response are executed one at a time in the order
\* the response lists them: a tool starts only when every call before it
\* has finished and has its message in History, and the tool messages
\* stand in History in the order of the calls.
C2_SequentialInOrder ==
    (asstAt > 0 /\ pc \in {"ExecutingTools", "RequestSent"}) =>
        LET calls == resp.Choices[1].Message.ToolCalls
            appended == Len(History) - asstAt
            started == Len(execLog)
        IN  /\ started <= Len(calls)
            /\ \A k \in 1..started : execLog[k] = calls[k].ID
            /\ appended = IF pc = "ExecutingTools" /\ inflight
                          THEN started - 1 ELSE started
            /\ \A k \in 1..appended :
                  /\ History[asstAt + k].Role = "tool"
                  /\ History[asstAt + k].ToolCallID = calls[k].ID
                  /\ History[asstAt + k].Name = calls[k].Function.Name
            /\ pc = "RequestSent" => appended = Len(calls)

\* A round whose response listed call_2 before call_1 is over.
C2_Witness ==
    /\ RoundOver
    /\ Len(resp.Choices[1].Message.ToolCalls) = 2
    /\ resp.Choices[1].Message.ToolCalls[1].ID = "call_2"
    /\ execLog = <<"call_2", "call_1">>

GotStop(r) == Len(r.Choices) > 0 /\ r.Choices[1].FinishReason = "stop"

\* C3. A response whose first choice finished with stop makes Run append
\* one assistant message with the response's text as the last entry of
\* History and return that text without error; and Run returns without
\* error in no other step.
C3_StopReturnsText ==
    [][/\ (pc = "RequestSent" /\ err' = Nil /\ GotStop(resp')) =>
            /\ History' = Append(History,
                    Message("assistant", resp'.Choices[1].Message.Content,
                            "", NoCalls, ""))
            /\ result' = [text |-> resp'.Choices[1].Message.Content,
                          err |-> Nil]
            /\ pc' = "AwaitingInput"
            /\ llmCalls' = llmCalls
       /\ (result' # result /\ result'.err = Nil) =>
            (pc = "RequestSent" /\ err' = Nil /\ GotStop(resp'))
      ]_vars

\* Run has returned the model's text after a tool round.
C3_Witness ==
    /\ pc = "AwaitingInput"
    /\ result.err = Nil
    /\ rounds = 2
    /\ History[Len(History)].Role = "assistant"
    /\ History[Len(History)].Content = result.text
    /\ result.text # ""

\* C4. A response with zero choices makes Run fail with the no-choices
\* error without another provider call, and History is what it was when
\* the request was built: the History the Run invocation found, plus its
\* user turn when it was given a message.
C4_NoChoicesFatal ==
    [][(pc = "RequestSent" /\ err' = Nil /\ Len(resp'.Choices) = 0) =>
            /\ pc' = "AwaitingInput"
            /\ result' = [text |-> "", err |-> "LLM returned no choices"]
            /\ llmCalls' = llmCalls
            /\ History' = History
            /\ Len(History') = frameStart + (IF usrMsg # "" THEN 1 ELSE 0)
            /\ usrMsg # "" =>
                 History'[Len(History')]
                   = Message("user", usrMsg, "", NoCalls, "")
      ]_vars

\* Run has failed on a response without choices, its user turn the last
\* entry of History.
C4_Witness ==
    /\ pc = "AwaitingInput"
    /\ result.err = "LLM returned no choices"
    /\ usrMsg # ""
    /\ Len(History) = runStart + 1
    /\ History[Len(History)].Role = "user"

\* C5. A first choice whose finish reason is neither tool_calls nor stop
\* makes Run fail with the unexpected-finish-reason error; nothing is
\* appended for the response and everything appended before stays.
C5_UnexpectedFinishReason ==
    [][(/\ pc = "RequestSent"
        /\ err' = Nil
        /\ Len(resp'.Choices) > 0
        /\ resp'.Choices[1].FinishReason \notin {"tool_calls", "stop"}) =>
            /\ pc' = "AwaitingInput"
            /\ result' = [text |-> "",
                          err |-> "unexpected finish_reason: "
                                    \o resp'.Choices[1].FinishReason]
            /\ History' = History
            /\ llmCalls' = llmCalls
      ]_vars

\* Run has failed on finish reason length after a tool round, whose
\* user, tool-call and tool turns are still in History.
C5_Witness ==
    /\ pc = "AwaitingInput"
    /\ result.err = "unexpected finish_reason: length"
    /\ rounds = 2
    /\ Len(History) >= runStart + 3
    /\ History[runStart + 1].Role = "user"
    /\ History[runStart + 2].ToolCalls # <<>>
    /\ History[runStart + 3].Role = "tool"

C7_CancelledRoundAllOrNothing ==
    (pc = "AwaitingInput" /\ err = "context canceled") =>
        \/ Len(History) = frameStart
        \/ /\ Len(History) > frameStart + 1
           /\ History[Len(History)].Role # "user"

\* C8. When Execute fails for a call, Run appends a tool-error message
\* with the error text, the call's identifier and the tool's name, does
\* not return, and goes on: to the next call of the round, or after the
\* last call to the next provider call.
C8_ToolFailureFedBack ==
    [][(pc = "ExecutingTools" /\ inflight) =>
          LET calls == resp.Choices[1].Message.ToolCalls
              call == calls[idx]
              r == Execute(definitions, call.Function.Name,
                           call.Function.Arguments)
          IN  r.err # Nil =>
                /\ History' = Append(History,
                      Message("tool",
                              "Error executing tool: " \o r.err
                                 \o ". Please fix your arguments.",
                              call.Function.Name, NoCalls, call.ID))
                /\ result' = Pending
                /\ IF idx < Len(calls)
                   THEN /\ pc' = "ExecutingTools"
                        /\ idx' = idx + 1
                        /\ llmCalls' = llmCalls
                   ELSE /\ pc' = "RequestSent"
                        /\ llmCalls' = llmCalls + 1
                        /\ req'.Messages = History'
      ]_vars

HasContent(text) == \E i \in DOMAIN History : History[i].Content = text

\* The provider is called again with a History that holds a tool-error
\* message of each kind: unknown tool, invalid arguments, non-string result.
C8_Witness ==
    /\ pc = "RequestSent"
    /\ result = Pending
    /\ HasContent("Error executing tool: tool get_weather not found. Please fix your arguments.")
    /\ HasContent("Error executing tool: invalid args: json: cannot unmarshal array into Go value of type main.WeatherArgs. Please fix your arguments.")
    /\ HasContent("Error executing tool: function did not return a string. Please fix your arguments.")

\* C9. History is append-only: every step of Run and RegisterTool, failing
\* Runs included, leaves the History before it as a prefix of the History
\* after it.
C9_AppendOnly == [][IsPrefix(History, History')]_vars

\* A Run has failed after an earlier Run had succeeded, and the earlier
\* Run's turns are still there.
C9_Witness ==
    /\ pc = "AwaitingInput"
    /\ result.err \notin {Nil, "<pending>"}
    /\ Len(History) > runStart
    /\ \E i \in 1..runStart :
          History[i].Role = "assistant" /\ History[i].Content # ""

\* C10. Every request handed to CreateChat, in the first round and in
\* every re-entry, carries the whole History of that moment as its
\* messages and exactly one function-typed tool per registered tool.
C10_RequestCarriesAll ==
    pc = "RequestSent" =>
        /\ req.Model = ModelName
        /\ req.Messages = History
        /\ Len(req.Tools) = Cardinality(DOMAIN definitions)
        /\ \A i \in DOMAIN req.Tools : req.Tools[i].Type = "function"
        /\ \A n \in DOMAIN definitions :
              Cardinality({i \in DOMAIN req.Tools :
                             req.Tools[i].Function.Name = n}) = 1

\* A re-entry after a tool round with two tools registered, on an Agent
\* whose History holds an earlier Run.
C10_Witness ==
    /\ pc = "RequestSent"
    /\ rounds = 2
    /\ Cardinality(DOMAIN definitions) = 2
    /\ Len(req.Tools) = 2
    /\ \E i \in 1..runStart : History[i].Role = "user"
    /\ Len(req.Messages) > runStart + 2

-----------------------------------------------------------------------------
(* Properties of the Registry.                                             *)

\* A function of exactly one input whose result is, or holds, a string.
UsableShape(function) ==
    /\ function.kind = "func"
    /\ function.NumIn = 1
    /\ function.out \in {"string", "any_string"}

\* C11. Register accepts a function of exactly one input whose result is
\* string-convertible and nothing else: for any other value it returns an
\* error and leaves the registry as it was, so that every registered
\* definition has a usable shape and Execute never is the first to report
\* a wrong one.
C11_WrongShapeRejectedByRegister ==
    /\ op.name = "Register" =>
          /\ UsableShape(op.arg.call.function) => op.arg.returned = Nil
          /\ ~UsableShape(op.arg.call.function) =>
                /\ op.arg.returned \notin {Nil, "panic"}
                /\ Lookup(definitions, op.arg.call.name) = op.arg.call.before
    /\ \A n \in DOMAIN definitions : UsableShape(definitions[n].Func)
    /\ op.name = "Execute" =>
          op.arg.returned.err \notin {"function did not return a string",
                                      "function returned no results"}

\* C12. Execute under a name that is not registered returns the not-found
\* error and an empty result, calls no function, and leaves the registry
\* as it was.
C12_UnknownToolNotFound ==
    [][(op'.name = "Execute" /\ op'.arg.call.name \notin DOMAIN definitions) =>
            /\ op'.arg.returned.err
                  = "tool " \o op'.arg.call.name \o " not found"
            /\ op'.arg.returned.result = ""
            /\ op'.arg.returned.called = <<>>
            /\ definitions' = definitions
      ]_vars

\* Execute was called for get_weather, with arguments that decode, on a
\* registry that holds only the calculator.
C12_Witness ==
    /\ op.name = "Execute"
    /\ op.arg.call = [name |-> "get_weather", argsJson |-> "{\"city\":\"Paris\"}"]
    /\ DOMAIN definitions = {"calculator"}
    /\ op.arg.returned.err = "tool get_weather not found"

\* The errors Execute makes of a text encoding/json cannot decode.
InvalidArgsErrors ==
    {"invalid args: " \o e :
        e \in {"json: cannot unmarshal number into Go struct field WeatherArgs.city of type string",
               "json: cannot unmarshal array into Go value of type main.WeatherArgs",
               "json: cannot unmarshal string into Go value of type main.WeatherArgs",
               "json: cannot unmarshal number into Go value of type main.WeatherArgs",
               "unexpected end of JSON input",
               "invalid character looking for beginning of value"}}

\* Argument texts that are no JSON object: null, an array, a string, a
\* number, the empty text and a cut-off object.
NotAnObject == {"null", "[1]", "\"Paris\"", "1", "", "{"}

\* C13. Execute on a registered tool decodes leniently: a JSON object
\* without the field makes it call the function with the field at its zero
\* value (and succeed when the function returns a string), while a text
\* that is no JSON object at all makes it return an invalid-arguments
\* error without calling the function.
C13_NonObjectArgsRejected ==
    (op.name = "Execute" /\ op.arg.call.name \in DOMAIN definitions) =>
        LET fn == definitions[op.arg.call.name].Func
            r == op.arg.returned
        IN  /\ op.arg.call.argsJson = "{}" =>
                  /\ r.called = <<[fn |-> fn.id, city |-> ""]>>
                  /\ UsableShape(fn) => r.err = Nil
            /\ op.arg.call.argsJson \in NotAnObject =>
                  /\ r.err \in InvalidArgsErrors
                  /\ r.called = <<>>



\* C14. GetAllTools returns a list that is never nil: the empty list when
\* nothing is registered, and otherwise exactly one entry of type function
\* for each registered name and no other entry; the call leaves the
\* registry as it was.
C14_GetAllToolsListsEachOnce ==
    [][op'.name = "GetAllTools" =>
          LET tools == op'.arg.returned
          IN  /\ tools # NilSlice
              /\ DOMAIN definitions = {} => tools = <<>>
              /\ Len(tools) = Cardinality(DOMAIN definitions)
              /\ \A i \in DOMAIN tools :
                    /\ tools[i].Type = "function"
                    /\ tools[i].Function.Name \in DOMAIN definitions
              /\ \A n \in DOMAIN definitions :
                    Cardinality({i \in DOMAIN tools :
                                   tools[i].Function.Name = n}) = 1
              /\ definitions' = definitions
      ]_vars

\* GetAllTools listed two tools, the calculator first.
C14_Witness ==
    /\ op.name = "GetAllTools"
    /\ Len(op.arg.returned) = 2
    /\ op.arg.returned[1].Function.Name = "calculator"
    /\ op.arg.returned[2].Function.Name = "get_weather"



\* C15. Names are unique in the registry: Register of a usable function
\* under a name that already has a definition returns no error and
\* replaces that definition, the other names keeping theirs; from then on
\* Execute of the name calls the later function and no other, and
\* GetAllTools lists the name once, with the later description.
C15_ReRegistrationReplaces ==
    [][/\ (/\ op'.name = "Register"
            /\ op'.arg.call.before # NoDefinition
            /\ UsableShape(op'.arg.call.function)) =>
              LET c == op'.arg.call
              IN  /\ op'.arg.returned = Nil
                  /\ DOMAIN definitions' = DOMAIN definitions
                  /\ \A n \in DOMAIN definitions \ {c.name} :
                        definitions'[n] = definitions[n]
                  /\ definitions'[c.name].Func = c.function
                  /\ definitions'[c.name].Description = c.description
                  /\ Execute(definitions', c.name, "{}").called
                        = <<[fn |-> c.function.id, city |-> ""]>>
                  /\ \A tools \in GetAllTools(definitions') :
                        \E i \in DOMAIN tools :
                           /\ tools[i].Function.Name = c.name
                           /\ tools[i].Function.Description = c.description
                           /\ \A j \in DOMAIN tools :
                                 tools[j].Function.Name = c.name => j = i
       /\ op'.name = "Execute" =>
              \A k \in DOMAIN op'.arg.returned.called :
                 op'.arg.returned.called[k].fn
                    = definitions[op'.arg.call.name].Func.id
       /\ op'.name = "GetAllTools" =>
              \A i \in DOMAIN op'.arg.returned :
                 op'.arg.returned[i].Function.Description
                    = definitions[op'.arg.returned[i].Function.Name].Description
      ]_vars

\* get_weather, registered with GetWeather, was registered again with
\* GetForecast under another description.
C15_Witness ==
    /\ op.name = "Register"
    /\ op.arg.call.name = "get_weather"
    /\ op.arg.call.before.Func = GetWeather
    /\ op.arg.call.function = GetForecast
    /\ op.arg.call.before.Description # op.arg.call.description
    /\ op.arg.returned = Nil
    /\ definitions["get_weather"].Func = GetForecast
    /\ definitions["get_weather"].Description = op.arg.call.description

-----------------------------------------------------------------------------
(* Properties of the Gemini client under Agent.Run.                        *)

\* Whether the first candidate of a Gemini response has a functionCall part.
CallsATool(nativeResp) ==
    \E i \in DOMAIN nativeResp.Candidates[1].Content.Parts :
        nativeResp.Candidates[1].Content.Parts[i].FunctionCall # <<>>

\* C16. The Gemini client reports finish reason tool_calls for every
\* response whose first candidate has a functionCall part, whatever finish
\* reason Gemini sent, and Run then takes the tool_calls branch: the
\* tool-call message is the last entry of History and the tool loop has
\* begun.  Without a functionCall part the finish reason is the vendor's
\* taken through the table (STOP to stop, MAX_TOKENS to length, the four
\* filter reasons to content_filter, any other unchanged), and Run returns.
C16_GeminiFinishReason ==
    (/\ provider = "gemini"
     /\ op.name = "CreateChat"
     /\ op.arg.err = Nil
     /\ Len(op.arg.native.Candidates) > 0) =>
        LET vendor == op.arg.native.Candidates[1].FinishReason
            reason == resp.Choices[1].FinishReason
        IN  IF CallsATool(op.arg.native)
            THEN /\ reason = "tool_calls"
                 /\ pc = "ExecutingTools"
                 /\ History[Len(History)]
                       = Message("assistant", "", "",
                                 resp.Choices[1].Message.ToolCalls, "")
                 /\ Len(resp.Choices[1].Message.ToolCalls) > 0
            ELSE /\ vendor = "STOP" => reason = "stop"
                 /\ vendor = "MAX_TOKENS" => reason = "length"
                 /\ vendor \in {"SAFETY", "RECITATION", "BLOCKLIST",
                                "PROHIBITED_CONTENT"} =>
                       reason = "content_filter"
                 /\ vendor \notin {"STOP", "MAX_TOKENS", "SAFETY", "RECITATION",
                                   "BLOCKLIST", "PROHIBITED_CONTENT"} =>
                       reason = vendor
                 /\ pc = "AwaitingInput"
                 /\ reason = "stop" <=> result.err = Nil

\* Gemini answered MAX_TOKENS with two functionCall parts, and Run is in
\* its tool loop.
C16_Witness ==
    /\ provider = "gemini"
    /\ op.name = "CreateChat"
    /\ op.arg.err = Nil
    /\ Len(op.arg.native.Candidates) > 0
    /\ op.arg.native.Candidates[1].FinishReason = "MAX_TOKENS"
    /\ Len(resp.Choices[1].Message.ToolCalls) = 2
    /\ pc = "ExecutingTools"

-----------------------------------------------------------------------------
(* Properties of the callback.                                             *)

\* The notifications come in the order request, response, and then for
\* each tool call the call and its result, before the next request.
InOrder(es) ==
    /\ es # <<>> => es[1].On = "LLMRequest"
    /\ \A i \in 1..(Len(es) - 1) :
          CASE es[i].On = "LLMRequest" -> es[i + 1].On = "LLMResponse"
            [] es[i].On = "LLMResponse" ->
                  es[i + 1].On \in {"ToolCall", "LLMRequest"}
            [] es[i].On = "ToolCall" ->
                  /\ es[i + 1].On = "ToolResult"
                  /\ es[i + 1].arg[1] = es[i].arg[1]
            [] es[i].On = "ToolResult" ->
                  es[i + 1].On \in {"ToolCall", "LLMRequest"}

HowMany(es, on) == Cardinality({i \in DOMAIN es : es[i].On = on})

\* C17. The callback only observes.  Given the same messages, provider
\* answers and tools, the Agent with a callback and the Agent without one
\* are, after every step, in the same state: the same History, the same
\* requests sent and tools started, the same result returned.  The
\* callback is told of the request before each provider call, of the
\* response after it, and for each tool call of the call before it runs
\* and of its result after; an Agent without callback tells nobody.
C17_ObserverOnly ==
    /\ (~callback /\ InStep) => Observable(AgentState) = Observable(twin)
    /\ ~callback => events = <<>>
    /\ callback =>
          /\ InOrder(events)
          /\ HowMany(events, "LLMRequest") = runCalls
          /\ HowMany(events, "LLMResponse")
                = IF pc = "RequestSent" \/ (pc = "AwaitingInput" /\ err # Nil)
                  THEN runCalls - 1 ELSE runCalls
          /\ pc = "RequestSent" =>
                events[Len(events)]
                  = [On |-> "LLMRequest", arg |-> Len(req.Messages)]
          /\ (pc = "ExecutingTools" /\ inflight) =>
                events[Len(events)]
                  = [On |-> "ToolCall",
                     arg |-> <<resp.Choices[1].Message.ToolCalls[idx].Function.Name,
                               resp.Choices[1].Message.ToolCalls[idx].Function.Arguments>>]
          /\ (pc = "ExecutingTools" /\ ~inflight) =>
                /\ events[Len(events)].On
                      = IF idx = 1 THEN "LLMResponse" ELSE "ToolResult"
                /\ idx > 1 =>
                      /\ events[Len(events)].arg[1] = History[Len(History)].Name
                      /\ History[Len(History)].Content
                            \in {events[Len(events)].arg[2],
                                 "Error executing tool: "
                                    \o events[Len(events)].arg[3]
                                    \o ". Please fix your arguments."}
          /\ HowMany(events, "ToolCall")
                = HowMany(events, "ToolResult")
                    + (IF pc = "ExecutingTools" /\ inflight THEN 1 ELSE 0)

\* Both Agents have returned the model's text after a round of two tool
\* calls, and the callback has been told of all of it.
C17_Witness ==
    /\ ~callback
    /\ InStep
    /\ pc = "AwaitingInput"
    /\ result.err = Nil
    /\ twin.result = result
    /\ [i \in DOMAIN twin.events |-> twin.events[i].On]
         = <<"LLMRequest", "LLMResponse", "ToolCall", "ToolResult", "ToolCall",
             "ToolResult", "LLMRequest", "LLMResponse">>

-----------------------------------------------------------------------------
(* Two goroutines on one Agent.                                            *)

\* The tool-call message h[i] is followed, as far as h goes, by one tool
\* message per call, in the order of the calls.
RoundAt(h, i) ==
    \A k \in 1..Len(h[i].ToolCalls) :
        i + k <= Len(h) =>
            /\ h[i + k].Role = "tool"
            /\ h[i + k].ToolCallID = h[i].ToolCalls[k].ID

\* All the calls of h[i] have their tool message in h.
Answered_All(h, i) == i + Len(h[i].ToolCalls) <= Len(h)

\* The tool message h[j] stands in the round of a tool-call message.
InRound(h, j) ==
    \E i \in 1..(j - 1) :
        /\ h[i].Role = "assistant"
        /\ j - i <= Len(h[i].ToolCalls)

\* C18. While the Run calls on an Agent are serialized by their caller,
\* linkage and order hold in every state: each tool-call message of History
\* is followed by the tool messages of its calls and nothing else, in the
\* order of the calls, every tool message stands in such a round, only the
\* round being executed lacks results, and a request carries complete
\* rounds only.  (With two Run calls interleaved this is lost: C18_Witness.)
C18_SerializedRunsKeepOrder ==
    (other.overlapped = FALSE /\ other.locals.pc = "AwaitingInput") =>
        /\ \A i \in DOMAIN History :
              History[i].Role = "assistant" =>
                  /\ RoundAt(History, i)
                  /\ \/ Answered_All(History, i)
                     \/ pc = "ExecutingTools" /\ i = asstAt
        /\ \A j \in DOMAIN History :
              History[j].Role = "tool" => InRound(History, j)
        /\ \A i \in DOMAIN req.Messages :
              req.Messages[i].Role = "assistant" =>
                  /\ RoundAt(req.Messages, i)
                  /\ Answered_All(req.Messages, i)

\* Two Run calls interleaved: the waiting goroutine is in a tool round of
\* two calls with one result appended, and the other call's user turn has
\* landed right after that result, inside the round; the request of that
\* call carries the round with its second call unanswered.
C18_Witness ==
    /\ other.overlapped
    /\ other.locals.pc = "ExecutingTools"
    /\ pc = "RequestSent"
    /\ LET i == other.locals.asstAt
       IN  /\ Len(History) = i + 2
           /\ Len(History[i].ToolCalls) = 2
           /\ History[i + 1].Role = "tool"
           /\ History[i + 2].Role = "user"
           /\ req.Messages = History
           /\ \A k \in DOMAIN req.Messages :
                 req.Messages[k].ToolCallID # History[i].ToolCalls[2].ID

-----------------------------------------------------------------------------
(* The system prompt.                                                      *)

\* C19. An Agent created with a system prompt has the system message with
\* that prompt as first entry of History, from New on and after every step
\* of every Run, and no second system message; an Agent created without
\* one starts with an empty History and never gets a system message.
C19_SystemPromptFirst ==
    /\ SystemPrompt # "" =>
          /\ Len(History) >= 1
          /\ History[1] = Message("system", SystemPrompt, "", <<>>, "")
          /\ \A i \in 2..Len(History) : History[i].Role # "system"
    /\ SystemPrompt = "" =>
          /\ \A i \in DOMAIN History : History[i].Role # "system"
          /\ op = NoOp => History = <<>>

\* An Agent with a system prompt has been through a Run with a tool round
\* that ended with the model's text.
C19_Witness ==
    /\ SystemPrompt # ""
    /\ pc = "AwaitingInput"
    /\ result.err = Nil
    /\ rounds >= 2
    /\ Len(History) >= 5
    /\ History[2].Role = "user"

-----------------------------------------------------------------------------
(* The tool-call message of a round.                                       *)

\* C20. In a tool_calls round the assistant's tool-call message is in
\* History before the first tool starts and before any tool message: while
\* the tools execute, it stands at the place it was appended at, it is the
\* last entry until the first tool has returned, and only tool messages
\* follow it.  The request of the next provider call carries it followed
\* by one tool message per call and nothing else up to the end.
C20_ToolCallMessageFirst ==
    /\ pc = "ExecutingTools" =>
          LET calls == resp.Choices[1].Message.ToolCalls
          IN  /\ asstAt \in DOMAIN History
              /\ History[asstAt] = Message("assistant", "", "", calls, "")
              /\ Len(execLog) <= 1 /\ (execLog = <<>> \/ inflight)
                    => Len(History) = asstAt
              /\ \A k \in (asstAt + 1)..Len(History) :
                    /\ History[k].Role = "tool"
                    /\ \E c \in DOMAIN calls : History[k].ToolCallID = calls[c].ID
    /\ (pc = "RequestSent" /\ asstAt > 0) =>
          LET calls == resp.Choices[1].Message.ToolCalls
              ms == req.Messages
          IN  /\ asstAt \in DOMAIN ms
              /\ ms[asstAt] = Message("assistant", "", "", calls, "")
              /\ Len(ms) = asstAt + Len(calls)
              /\ \A k \in (asstAt + 1)..Len(ms) :
                    /\ ms[k].Role = "tool"
                    /\ \E c \in DOMAIN calls : ms[k].ToolCallID = calls[c].ID

\* The request after a round of two calls: the tool-call message, then the
\* two tool messages, at the end of the request's messages.
C20_Witness ==
    /\ pc = "RequestSent"
    /\ asstAt > 0
    /\ Len(req.Messages) = asstAt + 2
    /\ Len(req.Messages[asstAt].ToolCalls) = 2
    /\ req.Messages[asstAt + 1].Role = "tool"
    /\ req.Messages[asstAt + 2].Role = "tool"

-----------------------------------------------------------------------------
(* User turns.                                                             *)

\* The places of the user messages among the entries of h after `from`.
UserTurns(h, from) == {i \in (from + 1)..Len(h) : h[i].Role = "user"}

\* C21. Run appends a user turn exactly when its message is not empty: the
\* caller's Run with a message has that message as the entry it appended
\* first, the caller's Run with an empty message and every re-entry after a
\* tool round append no user message, so that the entries of one
\* caller-issued Run hold at most one user turn; and no user message of
\* History has empty content.
C21_UserTurnIffMessage ==
    /\ \A i \in DOMAIN History :
          History[i].Role = "user" => History[i].Content # ""
    /\ rounds >= 1 =>
          /\ Cardinality(UserTurns(History, runStart)) <= 1
          /\ UserTurns(History, runStart) \subseteq {runStart + 1}
    /\ (pc = "RequestSent" /\ rounds = 1) =>
          IF usrMsg # ""
          THEN /\ Len(History) = runStart + 1
               /\ History[Len(History)] = Message("user", usrMsg, "", <<>>, "")
          ELSE Len(History) = runStart
    /\ (pc = "RequestSent" /\ rounds >= 2) =>
          /\ usrMsg = ""
          /\ Len(History) = frameStart
          /\ History[Len(History)].Role # "user"

\* A Run called with a message is in its third invocation, after two tool
\* rounds, with its one user turn in History.
C21_Witness ==
    /\ pc = "RequestSent"
    /\ rounds = 3
    /\ UserTurns(History, runStart) = {runStart + 1}
    /\ Len(History) >= runStart + 3

-----------------------------------------------------------------------------
(* The messages of History.                                                *)

\* C22. In History every message with a non-empty tool-call list is an
\* assistant message with empty content, whatever text the response had
\* next to its calls; and every tool message carries one identifier, not
\* empty, which is the identifier of the call it answers: the call at its
\* distance from the tool-call message before it.
C22_MessageInvariant ==
    /\ \A i \in DOMAIN History :
          History[i].ToolCalls # <<>> =>
              /\ History[i].Role = "assistant"
              /\ History[i].Content = ""
    /\ \A i \in DOMAIN History :
          History[i].Role = "tool" =>
              /\ History[i].ToolCallID # ""
              /\ History[i].ToolCalls = <<>>
              /\ \E j \in 1..(i - 1) :
                    /\ History[j].Role = "assistant"
                    /\ i - j \in DOMAIN History[j].ToolCalls
                    /\ \A k \in (j + 1)..i : History[k].Role = "tool"
                    /\ History[j].ToolCalls[i - j].ID = History[i].ToolCallID
                    /\ History[j].ToolCalls[i - j].Function.Name = History[i].Name

\* The response had text next to its two calls; its tool-call message is in
\* History without that text, followed by a tool error and a tool result.
C22_Witness ==
    /\ pc = "RequestSent"
    /\ asstAt > 0
    /\ resp.Choices[1].Message.Content # ""
    /\ Len(History[asstAt].ToolCalls) = 2
    /\ History[asstAt].Content = ""
    /\ Len(History) = asstAt + 2
    /\ History[asstAt + 1].Content # "GetWeather(Paris)"
    /\ History[asstAt + 2].Content = "GetWeather(Paris)"

-----------------------------------------------------------------------------
(* The Gemini client's call identifiers.                                   *)

\* The identifiers of the functionResponse parts of a native request, in
\* the order of its contents.
RECURSIVE ResponseIDs(_)
ResponseIDs(contents) ==
    IF contents = <<>> THEN <<>>
    ELSE (IF Head(contents).Parts[1].FunctionResponse # <<>>
          THEN <<Head(contents).Parts[1].FunctionResponse[1].ID>> ELSE <<>>)
         \o ResponseIDs(Tail(contents))

-----------------------------------------------------------------------------
(* The Anthropic client.                                                   *)

\* C24. The Anthropic client turns the stop reason tool_use into
\* tool_calls, end_turn into stop, max_tokens into length, and hands on
\* every other stop reason as it is, whether or not the content holds
\* tool_use blocks.
C24_AnthropicFinishReason ==
    (provider = "anthropic" /\ op.name = "CreateChat" /\ op.arg.err = Nil) =>
        LET stopReason == op.arg.native.StopReason
        IN  /\ Len(resp.Choices) = 1
            /\ resp.Choices[1].FinishReason =
                  CASE stopReason = "tool_use" -> "tool_calls"
                    [] stopReason = "end_turn" -> "stop"
                    [] stopReason = "max_tokens" -> "length"
                    [] stopReason = "stop_sequence" -> "stop_sequence"
                    [] OTHER -> stopReason

\* Claude ended its turn with end_turn in a response that holds a
\* tool_use block: Run took it as stop.
C24_Witness ==
    /\ provider = "anthropic"
    /\ op.name = "CreateChat"
    /\ op.arg.err = Nil
    /\ op.arg.native.StopReason = "end_turn"
    /\ Len(resp.Choices[1].Message.ToolCalls) > 0
    /\ resp.Choices[1].FinishReason = "stop"
    /\ result.err = Nil

\* The place in the per-turn list of the native request of the i-th
\* message of msgs, which is a user, assistant or tool message.
TurnOf(msgs, i) ==
    Cardinality({j \in 1..i : msgs[j].Role \in {"user", "assistant", "tool"}})

\* The last assistant turn before turn t, or 0.
AssistantBefore(turns, t) ==
    LET as == {j \in 1..(t - 1) : turns[j].Role = "assistant"}
    IN  IF as = {} THEN 0 ELSE CHOOSE j \in as : \A k \in as : k <= j

\* C25. In the request the Anthropic client makes of a request of Run,
\* every tool message, result or error, is a user turn whose content is
\* one tool_result block with the message's ToolCallID as tool_use_id, the
\* message's content, and is_error not set; and the last assistant turn
\* before it holds a tool_use block with that identifier.
C25_ToolResultTurns ==
    (provider = "anthropic" /\ pc = "RequestSent") =>
        LET turns == anthropicMapRequest(req).Messages
        IN  \A i \in DOMAIN req.Messages :
                req.Messages[i].Role = "tool" =>
                    LET t == TurnOf(req.Messages, i)
                        a == AssistantBefore(turns, t)
                    IN  /\ t \in DOMAIN turns
                        /\ turns[t].Role = "user"
                        /\ turns[t].Content.Kind = "blocks"
                        /\ Len(turns[t].Content.Blocks) = 1
                        /\ turns[t].Content.Blocks[1].Type = "tool_result"
                        /\ turns[t].Content.Blocks[1].ToolUseID
                              = req.Messages[i].ToolCallID
                        /\ turns[t].Content.Blocks[1].ResultContent
                              = req.Messages[i].Content
                        /\ turns[t].Content.Blocks[1].IsError = FALSE
                        /\ a > 0
                        /\ turns[a].Content.Kind = "blocks"
                        /\ \E b \in DOMAIN turns[a].Content.Blocks :
                              /\ turns[a].Content.Blocks[b].Type = "tool_use"
                              /\ turns[a].Content.Blocks[b].ID
                                    = req.Messages[i].ToolCallID

\* The request after a round of two calls, the first answered by a
\* result and the second by a tool error: two user turns of one
\* tool_result block each follow the assistant turn.
C25_Witness ==
    /\ provider = "anthropic"
    /\ pc = "RequestSent"
    /\ asstAt > 0
    /\ Len(req.Messages) = asstAt + 2
    /\ req.Messages[asstAt + 1].Content = "GetWeather(Paris)"
    /\ req.Messages[asstAt + 2].Content
         = "Error executing tool: function did not return a string. Please fix your arguments."
    /\ Len(anthropicMapRequest(req).Messages) = Len(req.Messages) - 1

-----------------------------------------------------------------------------
(* Properties of the translations of the clients.                          *)

\* The strings, joined with newlines, in order.
RECURSIVE JoinNewline(_)
JoinNewline(strs) ==
    IF strs = <<>> THEN ""
    ELSE IF Len(strs) = 1 THEN strs[1]
    ELSE strs[1] \o "\n" \o JoinNewline(Tail(strs))

IsSystem(msg) == msg.Role = "system"

IsTurn(msg) == msg.Role \in {"user", "assistant", "tool"}

\* The contents of the messages, in order.
ContentsOf(msgs) == [i \in DOMAIN msgs |-> msgs[i].Content]

\* The per-turn message is the translation of the canonical message: its
\* role, and its text, tool calls, or tool result.
TurnIsOf(turn, msg) ==
    /\ turn.Role = (IF msg.Role = "tool" THEN "user" ELSE msg.Role)
    /\ IF msg.Role = "tool"
       THEN /\ turn.Content.Kind = "blocks"
            /\ \E b \in DOMAIN turn.Content.Blocks :
                  turn.Content.Blocks[b].ToolUseID = msg.ToolCallID
       ELSE IF msg.ToolCalls # NoCalls
       THEN /\ turn.Content.Kind = "blocks"
            /\ [b \in 1..Len(msg.ToolCalls) |->
                   turn.Content.Blocks[Len(turn.Content.Blocks)
                                       - Len(msg.ToolCalls) + b].ID]
                 = [b \in 1..Len(msg.ToolCalls) |-> msg.ToolCalls[b].ID]
       ELSE /\ turn.Content.Kind = "string"
            /\ turn.Content.Text = msg.Content

\* C26. In the request the Anthropic client makes of a canonical request,
\* the system field is the contents of all system messages joined with
\* newlines, in order, and the per-turn list holds exactly the user,
\* assistant and tool messages, in their order, and no system message.
C26_SystemJoined ==
    op.name = "anthropic.CreateChat" =>
        LET turns == SelectSeq(req.Messages, IsTurn)
            body == op.arg.body
        IN  /\ body.System
                 = JoinNewline(ContentsOf(SelectSeq(req.Messages, IsSystem)))
            /\ Len(body.Messages) = Len(turns)
            /\ \A t \in DOMAIN turns : TurnIsOf(body.Messages[t], turns[t])
            /\ \A t \in DOMAIN body.Messages :
                  body.Messages[t].Role # "system"

\* The second half of C26 alone: the per-turn list.
C26_PerTurnList ==
    op.name = "anthropic.CreateChat" =>
        LET turns == SelectSeq(req.Messages, IsTurn)
            body == op.arg.body
        IN  /\ Len(body.Messages) = Len(turns)
            /\ \A t \in DOMAIN turns : TurnIsOf(body.Messages[t], turns[t])
            /\ \A t \in DOMAIN body.Messages :
                  body.Messages[t].Role # "system"

\* The first half of C26 for requests whose first system message is not
\* empty.
C26_SystemJoinedAfterText ==
    (/\ op.name = "anthropic.CreateChat"
     /\ LET sys == SelectSeq(req.Messages, IsSystem)
        IN  sys # <<>> => sys[1].Content # "") =>
        op.arg.body.System
          = JoinNewline(ContentsOf(SelectSeq(req.Messages, IsSystem)))

\* The text is not JSON: json.Unmarshal returns an error on it.
NotJSON(text) == ~UnmarshalAny(text).ok

\* What a well-formed arguments text decodes to, and the empty object for
\* any other text.
ArgsOrEmpty(text) ==
    IF NotJSON(text) THEN EmptyObject ELSE UnmarshalAny(text).v

\* The last n elements of the sequence.
LastN(seq, n) == SubSeq(seq, Len(seq) - n + 1, Len(seq))

\* C27. In the requests the Gemini and the Anthropic client make of a
\* canonical request, every user, assistant and tool message has its
\* turn, and the turn of an assistant message with tool calls holds one
\* call per tool call, in order, with its name (and identifier): the
\* arguments of a call whose text does not decode are the empty object,
\* those of every other call the decoded value.
C27_MalformedArguments ==
    LET turns == SelectSeq(req.Messages, IsTurn)
    IN  /\ op.name = "gemini.CreateChat" =>
              /\ Len(op.arg.body.Contents) = Len(turns)
              /\ \A t \in DOMAIN turns :
                    turns[t].ToolCalls # NoCalls /\ turns[t].Role = "assistant" =>
                        LET calls == turns[t].ToolCalls
                            parts == op.arg.body.Contents[t].Parts
                        IN  /\ Len(parts) >= Len(calls)
                            /\ LastN(parts, Len(calls))
                                 = [k \in 1..Len(calls) |->
                                      [Text |-> "",
                                       FunctionCall |->
                                          <<[Name |-> calls[k].Function.Name,
                                             Args |-> ArgsOrEmpty(
                                                 calls[k].Function.Arguments)]>>,
                                       FunctionResponse |-> <<>>]]
        /\ op.name = "anthropic.CreateChat" =>
              /\ Len(op.arg.body.Messages) = Len(turns)
              /\ \A t \in DOMAIN turns :
                    turns[t].ToolCalls # NoCalls /\ turns[t].Role = "assistant" =>
                        LET calls == turns[t].ToolCalls
                            blocks == op.arg.body.Messages[t].Content.Blocks
                        IN  /\ Len(blocks) >= Len(calls)
                            /\ \A k \in 1..Len(calls) :
                                  LET b == blocks[Len(blocks) - Len(calls) + k]
                                  IN  /\ b.Type = "tool_use"
                                      /\ b.ID = calls[k].ID
                                      /\ b.Name = calls[k].Function.Name
                                      /\ b.Input = ArgsOrEmpty(
                                                     calls[k].Function.Arguments)

\* A request of three messages translated by the Gemini client: the
\* second is an assistant message of two calls, the first one with
\* arguments that do not decode and the second with arguments that do.
C27_Witness ==
    /\ op.name = "gemini.CreateChat"
    /\ Len(req.Messages) = MaxMessages
    /\ req.Messages[1].Role = "user"
    /\ Len(req.Messages[2].ToolCalls) = 2
    /\ NotJSON(req.Messages[2].ToolCalls[1].Function.Arguments)
    /\ ~NotJSON(req.Messages[2].ToolCalls[2].Function.Arguments)
    /\ req.Messages[3].Role = "tool"
    /\ Len(op.arg.body.Contents) = MaxMessages
    /\ op.arg.body.Contents[2].Parts[1].FunctionCall[1].Args = EmptyObject

VendorMessageCount ==
    CASE op.name = "gemini.CreateChat" ->
            Len(op.arg.body.Contents)
            + (IF op.arg.body.SystemInstruction = <<>> THEN 0
               ELSE Len(op.arg.body.SystemInstruction[1].Parts))
      [] op.name = "anthropic.CreateChat" ->
            Len(op.arg.body.Messages)
            + (IF op.arg.body.System = "" THEN 0 ELSE 1)
      [] OTHER -> Len(op.arg.body.Messages)

\* The model the vendor request names: in the body, or in Gemini's URL.
VendorModel ==
    IF op.name = "gemini.CreateChat" THEN op.arg.url ELSE op.arg.body.Model

\* The number of tools the vendor request declares.
VendorToolCount ==
    IF op.name = "gemini.CreateChat"
    THEN (IF op.arg.body.Tools = <<>> THEN 0
          ELSE Len(op.arg.body.Tools[1].FunctionDeclarations))
    ELSE Len(op.arg.body.Tools)

Translated ==
    op.name \in {"openai.CreateChat", "gemini.CreateChat",
                 "anthropic.CreateChat"}

\* C29. The request each of the three clients makes of a canonical request
\* carries the model of the canonical request, as many messages and as
\* many tools.
C29_FieldsKept ==
    Translated =>
        /\ VendorModel = req.Model
        /\ VendorMessageCount = Len(req.Messages)
        /\ VendorToolCount = Len(req.Tools)

\* The parts of C29 that hold: the OpenAI client keeps all three, every
\* client keeps the number of tools, and the Anthropic client the model.
C29_KeptParts ==
    Translated =>
        /\ op.name = "openai.CreateChat" => C29_FieldsKept
        /\ VendorToolCount = Len(req.Tools)
        /\ op.name = "anthropic.CreateChat" => VendorModel = req.Model

\* C29 for the requests Run makes: the model is the client's, every role
\* is one of the four, and there is at most one system message, not
\* empty.
C29_FieldsKeptForRun ==
    (/\ Translated
     /\ req.Model = ModelName
     /\ \A i \in DOMAIN req.Messages : IsTurn(req.Messages[i]) \/ IsSystem(req.Messages[i])
     /\ Len(SelectSeq(req.Messages, IsSystem)) <= 1
     /\ \A i \in DOMAIN req.Messages :
           IsSystem(req.Messages[i]) => req.Messages[i].Content # "")
        => C29_FieldsKept

-----------------------------------------------------------------------------
(* Termination of Agent.Run.                                               *)

Running == pc # "AwaitingInput"

RunReturned == pc = "AwaitingInput" /\ result # Pending

\* CreateChat has come back in this step.
ProviderAnswers == pc = "RequestSent" /\ op'.name = "CreateChat"

\* The response of the round is one of finish reason tool_calls.
ToolCallsRound(e, r) ==
    /\ e = Nil
    /\ HasChoices(r)
    /\ r.Choices[1].FinishReason = "tool_calls"

\* The tool loop of the round is over in this step: the last call's tool
\* has returned.
LastToolReturns ==
    /\ pc = "ExecutingTools"
    /\ inflight
    /\ idx = Len(resp.Choices[1].Message.ToolCalls)
    /\ op'.name = "ExecuteReturns"

\* A round that is not a tool_calls round ends Run without a further call.
ReturnsInFirstOtherRound ==
    (ProviderAnswers /\ ~ToolCallsRound(op'.arg.err, resp')) =>
        /\ pc' = "AwaitingInput"
        /\ result' # Pending
        /\ llmCalls' = llmCalls

\* A provider call issued inside Run follows a tool_calls round.
FurtherCallOnlyAfterToolCalls ==
    (Running /\ llmCalls' # llmCalls) => ToolCallsRound(err', resp')

\* A tool_calls round is followed by its tools and then by a further
\* provider call, whatever the number of rounds made and the retries
\* configured.
ToolCallsRoundGoesOn ==
    /\ (ProviderAnswers /\ ToolCallsRound(op'.arg.err, resp')) =>
          IF resp'.Choices[1].Message.ToolCalls = NoCalls
          THEN pc' = "RequestSent" /\ llmCalls' = llmCalls + 1
          ELSE pc' = "ExecutingTools" /\ llmCalls' = llmCalls
    /\ LastToolReturns =>
          pc' = "RequestSent" /\ llmCalls' = llmCalls + 1 /\ rounds' = rounds + 1

====
